---- MODULE Spec2Model ----
(***************************************************************************)
(* Paper-trading core of coinHunter: the position ledger (tradingLogic),   *)
(* the state store (stateManager), the new-pool callback (index.js) and    *)
(* the exit sweep (exitStrategy), as they run on one JavaScript event      *)
(* loop: code between two awaits of real I/O is one atomic step.           *)
(*                                                                         *)
(* Numbers.  JavaScript doubles are modelled in fixed point: SOL amounts   *)
(* in units of 1/10000 SOL, rates in basis points (1/10000), prices in     *)
(* SOL units per token, token amounts as whole tokens; a division          *)
(* truncates.                                                              *)
(***************************************************************************)
EXTENDS Integers, Sequences, FiniteSets, TLC

\* ------------------------------------------------------------------ bounds
\* position objects one process creates (positions loaded at its start
\* plus Buy calls that succeed)
MaxObjs == 2
\* highest value of the logical clock (Date.now())
MaxTime == 1
\* process restarts in one history
MaxRestarts == 1
\* async call frames in flight at once
MaxTasks == 2
\* calls a direct caller of the ledger makes in one history
MaxCalls == 4
\* listeners the connection registers in one history
MaxSubscriptions == 3
\* the account-change notifications the connection delivers
MaxNotifications == 2
\* the prices with which one position is evaluated in the runs of the exit
\* engine that are followed price by price
MaxPath == 3

\* --------------------------------------------------------------- constants
\* config.js is not part of the sources.  The rates are the documented
\* defaults (fee 0.25%, profit target 15%, trailing stop 5%); the budget is
\* one and a half trades, and the time limit is one unit of the clock.
VIRTUAL_BUDGET_SOL == 15000
TRADE_SIZE_SOL == 10000
MAX_CONCURRENT_POSITIONS == 2
RAYDIUM_FEE_PERCENT == 25
PROFIT_TARGET_PERCENT == 1500
TRAILING_STOP_PERCENT == 500
TRADE_TIME_LIMIT_MINUTES == 1

\* 1.0 as a rate
RateOne == 10000

\* Math.random() * (0.05 - 0.01) + 0.01 : a value of [0.01, 0.05)
BuySlippageMin == 100
BuySlippageMax == 500
\* Math.random() * (0.03 - 0.01) + 0.01 : a value of [0.01, 0.03)
SellSlippageMin == 100
SellSlippageMax == 300

\* the values Math.random() is sampled at, as rates of RateOne: by a direct
\* caller's calls, and by the calls of the running bot
RandomSamples == {0, 9999}
BotSamples == {0}

Mints == {"m1", "m2", "m3"}
\* the mints of the pools the detector reports
DetectedMints == {"m1", "m2"}
PoolOf(mint) == CASE mint = "m1" -> "p1" [] mint = "m2" -> "p2" [] OTHER -> "p3"

\* what a caller gets from the price lookup it awaits: null (modelled as -1)
\* or a number, which the callers test against 0
NoPrice == -1
Prices == {0, 100, 120}
PriceOutcomes == {NoPrice} \cup Prices
\* what getCurrentPrice answers in the runs of the exit engine that are
\* followed price by price, for positions bought at 100
ExitPrices == {0, 100, 110, 115, 116, 120, 121, 130}
ExitPriceOutcomes == {NoPrice} \cup ExitPrices
\* the prices a direct caller passes to simulateBuy
BuyPrices == Prices \cup {-100}

ExitReasons == {"profit_target", "trailing_stop", "time_limit"}
\* the exit reasons a direct caller passes to simulateSell
CallerReasons == {"time_limit"}

Null == 0

\* ------------------------------------------------------------------- state
\* The async call frames that can be in flight at once; a frame is a run of
\* handleNewPool, a run of monitorTrades, or a direct call of one of the
\* ledger's exported functions.
Slots == 1..MaxTasks
\* the slot of the direct caller
Callers == {1}

VARIABLES
  virtualBudget,    \* tradingLogic: let virtualBudget
  activePositions,  \* tradingLogic: let activePositions, a sequence of object ids
  heap,             \* the position objects of the process, by object id
  nextId,           \* the next object id to allocate
  store,            \* content of ACTIVE_TRADES_FILE
  completedTrades,  \* content of the completed-trades log, one record per line
  tasks,            \* the call frame of each slot
  now,              \* Date.now(), in units of the trade time limit's minute
  restarts,         \* restarts so far
  lastCall,         \* the direct call of a ledger function that the caller
                    \* awaits or has just been returned from: its arguments,
                    \* the state it was made in and what it returned
  calls,            \* the direct calls made so far
  detector          \* solanaService: let poolSubscriptionId, and the
                    \* listeners registered at the connection

vars == <<virtualBudget, activePositions, heap, nextId, store, completedTrades,
          tasks, now, restarts, lastCall, calls, detector>>

caller == <<lastCall, calls>>

ledger == <<virtualBudget, activePositions, heap, nextId>>

\* An array reference held by a pending saveActiveTrades(trades): either the
\* array activePositions currently names (cur), or an array activePositions
\* named earlier, whose elements are in ids.
CurRef == [cur |-> TRUE, ids |-> <<>>]
NoRef == [cur |-> FALSE, ids |-> <<>>]

\* (seen is not program state: the field values the objects of snap had
\* when the copy snap was made)
Idle == [kind |-> "idle", pc |-> "idle", op |-> "none", arr |-> NoRef,
         data |-> <<>>, snap |-> <<>>, seen |-> <<>>, idx |-> 0,
         price |-> NoPrice, mint |-> "none"]

NoCall == [op |-> "none"]

EmptyText == [kind |-> "empty", elements |-> <<>>]
AbsentStore == [state |-> "absent", data |-> EmptyText, written |-> <<>>]

\* ----------------------------------------------------------------- helpers
\* a new frame takes the first free slot
FirstFree(t) == /\ tasks[t] = Idle
                /\ \A u \in Slots : u < t => tasks[u] # Idle

\* faulty variant of the filter: nothing is removed
KeepAll(ids, h, mint) ==
  ids

\* activePositions.filter(p => p.tokenMintAddress !== mint): a new array
WithoutMint(ids, h, mint) ==
  SelectSeq(ids, LAMBDA id : h[id].tokenMintAddress # mint)

\* Array.prototype.find by tokenMintAddress: the first match, or Null
FindByMint(ids, h, mint) ==
  LET hits == {i \in 1..Len(ids) : h[ids[i]].tokenMintAddress = mint}
  IN  IF hits = {} THEN Null
      ELSE ids[CHOOSE i \in hits : \A j \in hits : i <= j]

\* JSON.stringify(trades): the field values of the objects the array holds
\* at the time of the call
Stringify(ids, h) == [i \in 1..Len(ids) |-> h[ids[i]]]

\* the array a reference denotes now
Deref(ref) == IF ref.cur THEN activePositions ELSE ref.ids

\* ----------------------------------------------------------- pricing model
\* Math.random() * (hi - lo) + lo, for the sample r of Math.random()
Slippage(r, lo, hi) == (r * (hi - lo)) \div RateOne + lo

\* faulty variant: a price <= 0 is not caught and is taken as the least price
calculateTokensForSolUnguarded(solAmount, currentPriceInSol, feePercent, slippagePercent) ==
  LET price == IF currentPriceInSol <= 0 THEN 1 ELSE currentPriceInSol
      solAfterFee == (solAmount * (RateOne - feePercent)) \div RateOne
      tokensBeforeSlippage == solAfterFee \div price
  IN  (tokensBeforeSlippage * (RateOne - slippagePercent)) \div RateOne

calculateTokensForSol(solAmount, currentPriceInSol, feePercent, slippagePercent) ==
  IF currentPriceInSol <= 0 THEN 0
  ELSE LET solAfterFee == (solAmount * (RateOne - feePercent)) \div RateOne
           tokensBeforeSlippage == solAfterFee \div currentPriceInSol
       IN  (tokensBeforeSlippage * (RateOne - slippagePercent)) \div RateOne

calculateSolForTokens(tokenAmount, currentPriceInSol, feePercent, slippagePercent) ==
  IF currentPriceInSol <= 0 THEN 0
  ELSE LET solBeforeFeeAndSlippage == tokenAmount * currentPriceInSol
           solAfterFee == (solBeforeFeeAndSlippage * (RateOne - feePercent)) \div RateOne
       IN  (solAfterFee * (RateOne - slippagePercent)) \div RateOne

\* ------------------------------------------------- the pricing arithmetic
\* The two operators above compute in fixed point, which is how the ledger
\* of this model holds amounts.  The source computes with JavaScript
\* numbers; the operators below follow its statements one by one on exact
\* fractions n/d (lowest terms, d > 0), so that what it computes can be
\* compared with a formula.  The rounding of IEEE doubles is not modelled.
RECURSIVE GCD(_, _)
GCD(a, b) == IF b = 0 THEN a ELSE GCD(b, a % b)

Frac(n, d) ==
  LET g == GCD(IF n < 0 THEN -n ELSE n, d)
  IN  [n |-> n \div g, d |-> d \div g]

\* a * b, a / b for b > 0, 1 - a, a < b
Times(a, b) == Frac(a.n * b.n, a.d * b.d)
Over(a, b) == Frac(a.n * b.d, a.d * b.n)
OneMinus(a) == Frac(a.d - a.n, a.d)
Less(a, b) ==
  LET g == GCD(a.d, b.d)
  IN  a.n * (b.d \div g) < b.n * (a.d \div g)

\* faulty variant: the slippage is not applied
tokensAfterSlippageFeeOnly(solAmount, currentPriceInSol, feePercent, slippagePercent) ==
  IF ~Less(Frac(0, 1), currentPriceInSol) THEN Frac(0, 1)
  ELSE LET solAfterFee == Times(solAmount, OneMinus(feePercent))
       IN  Over(solAfterFee, currentPriceInSol)

\* calculateTokensForSol, lines 21-28, statement by statement
tokensAfterSlippage(solAmount, currentPriceInSol, feePercent, slippagePercent) ==
  IF ~Less(Frac(0, 1), currentPriceInSol) THEN Frac(0, 1)
  ELSE LET solAfterFee == Times(solAmount, OneMinus(feePercent))
           tokensBeforeSlippage == Over(solAfterFee, currentPriceInSol)
       IN  Times(tokensBeforeSlippage, OneMinus(slippagePercent))

\* calculateSolForTokens, lines 38-46, statement by statement
solAfterSlippage(tokenAmount, currentPriceInSol, feePercent, slippagePercent) ==
  IF ~Less(Frac(0, 1), currentPriceInSol) THEN Frac(0, 1)
  ELSE LET tokensToSell == tokenAmount
           solBeforeFeeAndSlippage == Times(tokensToSell, currentPriceInSol)
           solAfterFee == Times(solBeforeFeeAndSlippage, OneMinus(feePercent))
       IN  Times(solAfterFee, OneMinus(slippagePercent))

\* ------------------------------------------------------------------ ledger
\* The operators of this section are the synchronous part of a ledger call,
\* up to the first await of real I/O.  Each one determines virtualBudget,
\* activePositions, heap, nextId, completedTrades and tasks; the
\* action that uses it determines store, now, restarts, lastCall and calls.

\* faulty variants of canBuy: without the budget test, without any test,
\* without the test for an open position of the mint
canBuyNoBudgetCheck(tokenMint) ==
  /\ ~(Len(activePositions) >= MAX_CONCURRENT_POSITIONS)
  /\ FindByMint(activePositions, heap, tokenMint) = Null

canBuyAlways(tokenMint) ==
  tokenMint \in Mints

canBuyNoDuplicateCheck(tokenMint) ==
  /\ ~(virtualBudget < TRADE_SIZE_SOL)
  /\ ~(Len(activePositions) >= MAX_CONCURRENT_POSITIONS)

canBuy(tokenMint) ==
  /\ ~(virtualBudget < TRADE_SIZE_SOL)
  /\ ~(Len(activePositions) >= MAX_CONCURRENT_POSITIONS)
  /\ FindByMint(activePositions, heap, tokenMint) = Null

\* A frame that awaits saveActiveTrades(activePositions): the array is
\* passed by reference and is read (JSON.stringify) only after fs.access.
Saving(frame, op) == [frame EXCEPT !.pc = "access", !.op = op, !.arr = CurRef,
                                   !.data = <<>>]

\* activePositions is about to name a new array: a pending save that was
\* given the old array keeps it.
KeepOldArray(frame) ==
  IF frame.pc = "access" /\ frame.arr.cur
  THEN [frame EXCEPT !.arr = [cur |-> FALSE, ids |-> activePositions]]
  ELSE frame

\* faulty variant: the position does not record what it cost
newPositionWithoutCost(tokenMint, poolId, currentPriceInSol, timestamp, calculatedTokenAmount) ==
  [tokenMintAddress |-> tokenMint,
   poolId |-> poolId,
   buyPrice |-> currentPriceInSol,
   buyTimestamp |-> timestamp,
   tokenAmount |-> calculatedTokenAmount,
   peakPrice |-> currentPriceInSol,
   tradeSizeSol |-> 0]

\* faulty variant: the peak price is not initialized to the buy price
newPositionPeakZero(tokenMint, poolId, currentPriceInSol, timestamp, calculatedTokenAmount) ==
  [tokenMintAddress |-> tokenMint,
   poolId |-> poolId,
   buyPrice |-> currentPriceInSol,
   buyTimestamp |-> timestamp,
   tokenAmount |-> calculatedTokenAmount,
   peakPrice |-> 0,
   tradeSizeSol |-> TRADE_SIZE_SOL]

newPosition(tokenMint, poolId, currentPriceInSol, timestamp, calculatedTokenAmount) ==
  [tokenMintAddress |-> tokenMint,
   poolId |-> poolId,
   buyPrice |-> currentPriceInSol,
   buyTimestamp |-> timestamp,
   tokenAmount |-> calculatedTokenAmount,
   peakPrice |-> currentPriceInSol,
   tradeSizeSol |-> TRADE_SIZE_SOL]

\* simulateBuy, lines 104-138.  r is the sample of Math.random(); frame is
\* the caller's frame, onNull its frame once null has been returned.
simulateBuy(t, tokenMint, poolId, currentPriceInSol, r, frame, onNull) ==
  LET simulatedSlippagePercent == Slippage(r, BuySlippageMin, BuySlippageMax)
      calculatedTokenAmount ==
        calculateTokensForSol(TRADE_SIZE_SOL, currentPriceInSol,
                              RAYDIUM_FEE_PERCENT, simulatedSlippagePercent)
  IN  IF ~canBuy(tokenMint) \/ calculatedTokenAmount <= 0
      THEN /\ UNCHANGED <<ledger, completedTrades>>
           /\ tasks' = [tasks EXCEPT ![t] = onNull]
      ELSE /\ virtualBudget' = virtualBudget - TRADE_SIZE_SOL
           /\ heap' = heap @@ (nextId :> newPosition(tokenMint, poolId,
                                 currentPriceInSol, now, calculatedTokenAmount))
           /\ nextId' = nextId + 1
           /\ activePositions' = Append(activePositions, nextId)
           /\ UNCHANGED completedTrades
           /\ tasks' = [tasks EXCEPT ![t] = Saving(frame, "buy")]

\* faulty variant: the profit is the proceeds, the cost is not subtracted
completedTradeDataGrossPL(position, currentPriceInSol, calculatedSolProceeds, exitReason, sold) ==
  [tokenMintAddress |-> position.tokenMintAddress,
   poolId |-> position.poolId,
   buyPrice |-> position.buyPrice,
   buyTimestamp |-> position.buyTimestamp,
   tokenAmount |-> position.tokenAmount,
   peakPrice |-> position.peakPrice,
   tradeSizeSol |-> position.tradeSizeSol,
   sellPrice |-> currentPriceInSol,
   solProceeds |-> calculatedSolProceeds,
   exitReason |-> exitReason,
   sellTimestamp |-> now,
   profitOrLoss |-> calculatedSolProceeds,
   run |-> restarts,
   sold |-> sold]

completedTradeData(position, currentPriceInSol, calculatedSolProceeds, exitReason, sold) ==
  [tokenMintAddress |-> position.tokenMintAddress,
   poolId |-> position.poolId,
   buyPrice |-> position.buyPrice,
   buyTimestamp |-> position.buyTimestamp,
   tokenAmount |-> position.tokenAmount,
   peakPrice |-> position.peakPrice,
   tradeSizeSol |-> position.tradeSizeSol,
   sellPrice |-> currentPriceInSol,
   solProceeds |-> calculatedSolProceeds,
   exitReason |-> exitReason,
   sellTimestamp |-> now,
   profitOrLoss |-> calculatedSolProceeds - position.tradeSizeSol,
   \* not fields of the record: the process that sold, and the object of
   \* its array that the sale was of
   run |-> restarts,
   sold |-> sold]

\* faulty variant: only a missing argument is caught, the array is not searched
positionNotFoundNullOnly(pos) ==
  pos = Null

\* simulateSell, line 152: !position || !activePositions.find(...)
positionNotFound(pos) ==
  \/ pos = Null
  \/ FindByMint(activePositions, heap, heap[pos].tokenMintAddress) = Null

\* simulateSell, lines 151-187.  pos is the object passed as position (an
\* object id, or Null).
simulateSell(t, pos, currentPriceInSol, exitReason, r, frame, onNull) ==
  LET position == heap[pos]
      simulatedSlippagePercent == Slippage(r, SellSlippageMin, SellSlippageMax)
      calculatedSolProceeds ==
        calculateSolForTokens(position.tokenAmount, currentPriceInSol,
                              RAYDIUM_FEE_PERCENT, simulatedSlippagePercent)
      remaining == WithoutMint(activePositions, heap, position.tokenMintAddress)
      sold == FindByMint(activePositions, heap, position.tokenMintAddress)
  IN  IF positionNotFound(pos)
      THEN /\ UNCHANGED <<ledger, completedTrades>>
           /\ tasks' = [tasks EXCEPT ![t] = onNull]
      ELSE IF calculatedSolProceeds < 0
      THEN /\ UNCHANGED <<ledger, completedTrades>>
           /\ tasks' = [tasks EXCEPT ![t] = onNull]
      ELSE /\ virtualBudget' = virtualBudget + calculatedSolProceeds
           /\ completedTrades' = Append(completedTrades,
                completedTradeData(position, currentPriceInSol,
                                   calculatedSolProceeds, exitReason, sold))
           /\ activePositions' = remaining
           /\ UNCHANGED <<heap, nextId>>
           /\ tasks' = [u \in Slots |->
                          IF u = t THEN Saving(frame, "sell")
                          ELSE KeepOldArray(tasks[u])]

\* faulty variant: any price other than the stored peak is taken as the peak
PeakRisesOnAnyChange(tokenMintAddress, currentPriceInSol) ==
  LET position == FindByMint(activePositions, heap, tokenMintAddress)
  IN  /\ position # Null
      /\ currentPriceInSol # heap[position].peakPrice

\* whether updatePeakPrice(tokenMintAddress, currentPriceInSol) writes
PeakRises(tokenMintAddress, currentPriceInSol) ==
  LET position == FindByMint(activePositions, heap, tokenMintAddress)
  IN  /\ position # Null
      /\ currentPriceInSol > heap[position].peakPrice

\* faulty variant: the price is written to every position object
updatePeakPriceOfAll(t, tokenMintAddress, currentPriceInSol, frame) ==
  /\ heap' = [id \in DOMAIN heap |->
                [heap[id] EXCEPT !.peakPrice = currentPriceInSol]]
  /\ UNCHANGED <<virtualBudget, activePositions, nextId, completedTrades>>
  /\ tasks' = [tasks EXCEPT ![t] = Saving(frame, "peak")]

\* updatePeakPrice, lines 198-203, when it writes: the object is changed in
\* place
updatePeakPrice(t, tokenMintAddress, currentPriceInSol, frame) ==
  LET position == FindByMint(activePositions, heap, tokenMintAddress)
  IN  /\ heap' = [heap EXCEPT ![position].peakPrice = currentPriceInSol]
      /\ UNCHANGED <<virtualBudget, activePositions, nextId, completedTrades>>
      /\ tasks' = [tasks EXCEPT ![t] = Saving(frame, "peak")]

\* updatePeakPrice, lines 198-208, when it writes nothing; it returns at once
updatePeakPriceNoop(t, tokenMintAddress, currentPriceInSol, onReturn) ==
  /\ UNCHANGED <<ledger, completedTrades>>
  /\ tasks' = [tasks EXCEPT ![t] = onReturn]

\* getActivePositions, lines 215-217: [...activePositions], a new array
\* that holds the same objects
getActivePositions == [i \in 1..Len(activePositions) |-> activePositions[i]]

\* --------------------------------------------------------------- detector
\* let poolSubscriptionId = null, line 370.  The connection numbers the
\* listeners it registers from 0.
NoSubscription == -1

\* the callbacks handed to subscribeToNewPools
Handlers == {"handleNewPool", "otherHandler"}

\* the listener the connection calls on account changes: the callback of
\* lines 390-506, which hands the pools it detects to handler
Listener(id, handler) == [id |-> id, handler |-> handler]

\* solanaService when the module has been loaded; removing is the
\* subscription a pending unsubscribeFromNewPools awaits the removal of,
\* notifications are the runs of the listener callback, and delivered the
\* calls of onNewPoolDetectedCallback made so far
Unsubscribed ==
  [poolSubscriptionId |-> NoSubscription, listeners |-> {},
   nextSubscription |-> 0, removing |-> NoSubscription,
   notifications |-> {}, nextNotification |-> 0, delivered |-> <<>>]

\* transaction signatures getSignaturesForAddress may answer with
Signatures == {"sigInit", "sigSwap", "sigBad"}

\* what the callback reads of the parsed transaction of a signature: an
\* instruction of the Raydium program with an initialize2 or init_pc_amount
\* log line, a transaction without one, or one with an instruction whose
\* programIdIndex names no account key
TxOf(signature) ==
  CASE signature = "sigInit" -> "initialize2"
    [] signature = "sigSwap" -> "other"
    [] signature = "sigBad" -> "malformed"

\* connection.getSignaturesForAddress(accountId, {limit: 1}), line 413: it
\* throws, answers with no signature, or with the latest one
SignatureOutcomes == {"throws", "none"} \cup Signatures

\* getTransactionDetails, lines 240-254: the parsed transaction, or null
\* when it is not found or getParsedTransaction throws
getTransactionDetails(signature, found) ==
  IF found THEN TxOf(signature) ELSE "null"

\* a run of the listener callback, lines 390-506, awaiting the signatures
Notification(n, listener, since) ==
  [n |-> n, listener |-> listener, pc |-> "signatures",
   signature |-> "pending", txDetails |-> "pending", since |-> since]

\* the callback after getSignaturesForAddress, lines 413-417 and 503-505
afterSignatures(frame, signatures) ==
  [frame EXCEPT !.signature = signatures,
                !.pc = CASE signatures = "throws" -> "dropped"
                         [] signatures = "none" -> "ignored"
                         [] OTHER -> "transaction"]

\* faulty variant: a transaction that cannot be read counts as a new pool
afterTransactionDeliversUnread(txDetails) ==
  IF txDetails = "other" THEN "ignored" ELSE "delivered"

\* the callback after getTransactionDetails, lines 419-505: whether
\* onNewPoolDetectedCallback is called. A null transaction skips the
\* block, a TypeError of line 428 is caught at 503, a transaction without
\* the log line ends the loop without a call
afterTransaction(txDetails) ==
  CASE txDetails = "null" -> "dropped"
    [] txDetails = "malformed" -> "dropped"
    [] txDetails = "other" -> "ignored"
    [] txDetails = "initialize2" -> "delivered"

\* poolData of lines 476-492, by the fields that identify the call
PoolEvent(frame) ==
  [handler |-> frame.listener.handler, n |-> frame.n,
   transaction_signature |-> frame.signature]

\* faulty variant: an active subscription does not stop a new one
subscribeToNewPoolsUnguarded(onNewPoolDetectedCallback, throws) ==
  IF throws THEN [detector EXCEPT !.poolSubscriptionId = NoSubscription]
  ELSE [detector EXCEPT
          !.poolSubscriptionId = detector.nextSubscription,
          !.listeners = @ \cup {Listener(detector.nextSubscription,
                                         onNewPoolDetectedCallback)},
          !.nextSubscription = @ + 1]

\* subscribeToNewPools, lines 376-515: solanaService after the call; throws
\* is whether connection.onProgramAccountChange throws
subscribeToNewPools(onNewPoolDetectedCallback, throws) ==
  IF detector.poolSubscriptionId # NoSubscription THEN detector
  ELSE IF throws THEN [detector EXCEPT !.poolSubscriptionId = NoSubscription]
  ELSE [detector EXCEPT
          !.poolSubscriptionId = detector.nextSubscription,
          !.listeners = @ \cup {Listener(detector.nextSubscription,
                                         onNewPoolDetectedCallback)},
          !.nextSubscription = @ + 1]

\* faulty variant: the subscription id survives a removal that resolved
unsubscribeFromNewPoolsKeepsId(ok, removed) ==
  LET gone == {l \in detector.listeners : l.id = detector.removing}
  IN  [detector EXCEPT
         !.removing = NoSubscription,
         !.listeners = IF removed THEN @ \ gone ELSE @]

\* unsubscribeFromNewPools once removeProgramAccountChangeListener has
\* settled, lines 523-528: solanaService after it. When the removal
\* resolves (ok) poolSubscriptionId becomes null; when it rejects the error
\* is logged and poolSubscriptionId stays; removed is whether the
\* connection has dropped the listener
unsubscribeFromNewPools(ok, removed) ==
  LET gone == {l \in detector.listeners : l.id = detector.removing}
  IN  [detector EXCEPT
         !.removing = NoSubscription,
         !.listeners = IF removed THEN @ \ gone ELSE @,
         !.poolSubscriptionId = IF ok THEN NoSubscription ELSE @]

\* solanaService once main() has called subscribeToNewPools(handleNewPool)
MainSubscribed ==
  [poolSubscriptionId |-> 0, listeners |-> {Listener(0, "handleNewPool")},
   nextSubscription |-> 1, removing |-> NoSubscription,
   notifications |-> {}, nextNotification |-> 0, delivered |-> <<>>]

\* ------------------------------------------------------------- state store
\* the members of a position object in the order simulateBuy creates them,
\* part_000 lines 127-135, which is the order JSON.stringify writes them in
PositionFields ==
  <<"tokenMintAddress", "poolId", "buyPrice", "buyTimestamp", "tokenAmount",
    "peakPrice", "tradeSizeSol">>

\* the text of one object: its members, name and value, in order
Members(object) ==
  [k \in 1..Len(PositionFields) |->
     [name |-> PositionFields[k], value |-> object[PositionFields[k]]]]

\* JSON.stringify(trades, null, 2), line 640: the text of an array
JSONstringify(trades) ==
  [kind |-> "array", elements |-> [i \in 1..Len(trades) |-> Members(trades[i])]]

\* texts a trades file can hold that no saveActiveTrades has written: text
\* that is not JSON (a file cut short), and the JSON text of one object
GarbageText == [kind |-> "garbage", elements |-> <<>>]
ObjectText(object) == [kind |-> "object", elements |-> <<Members(object)>>]

\* the object a member list is parsed to
ObjectOf(members) ==
  [f \in {members[k].name : k \in DOMAIN members} |->
     members[CHOOSE k \in DOMAIN members : members[k].name = f].value]

\* faulty variant: the array is built back to front
JSONparseReversed(text) ==
  [isArray |-> text.kind = "array",
   items |-> [i \in 1..Len(text.elements) |->
                ObjectOf(text.elements[Len(text.elements) + 1 - i])]]

\* JSON.parse(data), line 594, of a JSON text: whether the value is an
\* array, and the objects it holds
JSONparse(text) ==
  [isArray |-> text.kind = "array",
   items |-> [i \in 1..Len(text.elements) |-> ObjectOf(text.elements[i])]]

\* faulty variant: a value that is not an array is returned as it is
loadActiveTradesFromUnchecked(file) ==
  IF file.state # "file" THEN <<>>
  ELSE IF file.data.kind \in {"empty", "garbage"} THEN <<>>
  ELSE JSONparse(file.data).items

\* loadActiveTrades, lines 587-614, for a trades file: fs.readFile rejects
\* with ENOENT for an absent file and with another error for an unreadable
\* one, an empty text is answered at once, JSON.parse throws a SyntaxError
\* for text that is not JSON, and a value that is not an array is refused
loadActiveTradesFrom(file) ==
  IF file.state = "absent" THEN <<>>
  ELSE IF file.state = "unreadable" THEN <<>>
  ELSE IF file.data.kind = "empty" THEN <<>>
  ELSE IF file.data.kind = "garbage" THEN <<>>
  ELSE IF ~JSONparse(file.data).isArray THEN <<>>
  ELSE JSONparse(file.data).items

\* loadActiveTrades of the trades file as it is
loadActiveTrades == loadActiveTradesFrom(store)

\* the file once a text has been written to it whole; written is the array
\* that was serialized
FileOf(trades) ==
  [state |-> "file", data |-> JSONstringify(trades), written |-> trades]

\* saveActiveTrades, lines 626-641: fs.access has resolved; the array is
\* serialized as it is now and fs.writeFile is started.
saveSerialize(frame) ==
  [frame EXCEPT !.pc = "write", !.arr = NoRef,
                !.data = Stringify(Deref(frame.arr), heap)]

\* faulty variant: a write that fails leaves no file
saveWriteLosesFileOnFailure(frame, ok) ==
  IF ok THEN FileOf(frame.data) ELSE AbsentStore

\* saveActiveTrades, lines 641-647: fs.writeFile has settled; on success the
\* file holds the serialized text, on failure the error is logged and the
\* file keeps its content.
saveWrite(frame, ok) ==
  IF ok THEN FileOf(frame.data) ELSE store

\* ------------------------------------------------------------ initial state
\* A position an earlier run of the process bought at time 0 and saved
savedPosition(tokenMint, buyPrice, peakPrice) ==
  [newPosition(tokenMint, PoolOf(tokenMint), buyPrice, 0,
               calculateTokensForSol(TRADE_SIZE_SOL, buyPrice, RAYDIUM_FEE_PERCENT,
                                     BuySlippageMin))
     EXCEPT !.peakPrice = peakPrice]

\* The trades file at the start of the process: absent on a first start, or
\* what an earlier run saved last (at most MaxObjs positions).
InitialTrades ==
  {t \in {<<>>,
          <<savedPosition("m1", 100, 100)>>,
          <<savedPosition("m1", 100, 100), savedPosition("m2", 100, 120)>>} :
     Len(t) <= MaxObjs}

\* The process after main() has run initializeTrading(), lines 56-74: the
\* loaded trades are the open positions and the budget is the configured one.
ProcessStart ==
  /\ \E trades \in InitialTrades :
       /\ store = IF trades = <<>> THEN AbsentStore ELSE FileOf(trades)
       /\ heap = trades
       /\ activePositions = [i \in 1..Len(trades) |-> i]
       /\ nextId = Len(trades) + 1
  /\ virtualBudget = IF VIRTUAL_BUDGET_SOL < 0 THEN 0 ELSE VIRTUAL_BUDGET_SOL
  /\ completedTrades = <<>>
  /\ tasks = [t \in Slots |-> Idle]
  /\ now = 0
  /\ restarts = 0
  /\ lastCall = NoCall
  /\ calls = 0

\* the process once main() has also subscribed, index.js line 72
Init == ProcessStart /\ detector = MainSubscribed

\* the process before main() subscribes
DetectorInit == ProcessStart /\ detector = Unsubscribed

\* ------------------------------------------------- direct calls of the ledger
\* A caller that calls the exported functions of tradingLogic one at a time
\* and awaits each call.  lastCall holds what the caller observes of a call:
\* result is "null" for a returned null, "object" for a returned object and
\* "undefined" for updatePeakPrice; saved is what the saveActiveTrades of
\* the call returned ("none" before it returns, or when there is none).
Call(op, mint, pos, price, reason, r, result) ==
  [op |-> op, mint |-> mint, pos |-> pos, price |-> price, reason |-> reason,
   r |-> r, result |-> result, saved |-> "none",
   pre |-> [virtualBudget |-> virtualBudget,
            activePositions |-> activePositions,
            heap |-> heap,
            store |-> store,
            completedTrades |-> completedTrades]]

\* a caller calls simulateBuy and awaits it
ApiBuy(t, tokenMint, currentPriceInSol, r) ==
  /\ FirstFree(t)
  /\ lastCall = NoCall
  /\ calls < MaxCalls
  /\ calls' = calls + 1
  /\ simulateBuy(t, tokenMint, PoolOf(tokenMint), currentPriceInSol, r,
                 [Idle EXCEPT !.kind = "buy"], Idle)
  /\ nextId' <= MaxObjs + 1
  /\ lastCall' = Call("buy", tokenMint, Null, currentPriceInSol, "none", r,
                      IF tasks'[t] # Idle THEN "object" ELSE "null")
  /\ UNCHANGED <<store, now, restarts, detector>>

\* a caller calls simulateSell with an object it holds, or with null
ApiSell(t, pos, currentPriceInSol, exitReason, r) ==
  /\ FirstFree(t)
  /\ lastCall = NoCall
  /\ calls < MaxCalls
  /\ calls' = calls + 1
  /\ simulateSell(t, pos, currentPriceInSol, exitReason, r,
                  [Idle EXCEPT !.kind = "sell"], Idle)
  /\ lastCall' = Call("sell", IF pos = Null THEN "none"
                                ELSE heap[pos].tokenMintAddress,
                      pos, currentPriceInSol, exitReason, r,
                      IF tasks'[t] # Idle THEN "object" ELSE "null")
  /\ UNCHANGED <<store, now, restarts, detector>>

\* a caller calls updatePeakPrice
ApiUpdatePeak(t, tokenMintAddress, currentPriceInSol) ==
  /\ FirstFree(t)
  /\ lastCall = NoCall
  /\ calls < MaxCalls
  /\ calls' = calls + 1
  /\ IF PeakRises(tokenMintAddress, currentPriceInSol)
     THEN updatePeakPrice(t, tokenMintAddress, currentPriceInSol,
                          [Idle EXCEPT !.kind = "peak"])
     ELSE updatePeakPriceNoop(t, tokenMintAddress, currentPriceInSol, Idle)
  /\ lastCall' = Call("peak", tokenMintAddress, Null, currentPriceInSol,
                      "none", 0, "undefined")
  /\ UNCHANGED <<store, now, restarts, detector>>

\* the caller has been returned to and goes on to its next call
ApiReturn(t) ==
  /\ lastCall # NoCall
  /\ tasks[t] = Idle
  /\ lastCall' = NoCall
  /\ UNCHANGED <<ledger, store, completedTrades, tasks, now, restarts, calls, detector>>

\* what saveActiveTrades returns to the call that awaits it
Saved(ok) ==
  IF lastCall = NoCall THEN NoCall
  ELSE [lastCall EXCEPT !.saved = IF ok THEN "true" ELSE "false"]

\* fs.access of a pending saveActiveTrades resolves
SaveAccess(t) ==
  /\ tasks[t].pc = "access"
  /\ tasks' = [tasks EXCEPT ![t] = saveSerialize(tasks[t])]
  /\ UNCHANGED <<ledger, store, completedTrades, now, restarts, caller, detector>>

\* fs.writeFile of a pending saveActiveTrades settles, for a call that then
\* returns to code that does nothing more (a direct caller, handleNewPool)
SaveWrite(t, ok) ==
  /\ tasks[t].pc = "write"
  /\ tasks[t].kind \in {"buy", "sell", "peak", "pool"}
  /\ store' = saveWrite(tasks[t], ok)
  /\ tasks' = [tasks EXCEPT ![t] = Idle]
  /\ lastCall' = Saved(ok)
  /\ UNCHANGED <<ledger, completedTrades, now, restarts, calls, detector>>

\* the clock advances
Tick ==
  /\ now < MaxTime
  /\ now' = now + 1
  /\ UNCHANGED <<ledger, store, completedTrades, tasks, restarts, caller, detector>>

\* faulty variant: the cost of the loaded positions is taken from the budget
RestartDeductsCommitted(found) ==
  LET loadedTrades == loadActiveTradesFrom(found)
      n == Len(loadedTrades)
  IN  /\ restarts < MaxRestarts
      /\ n <= MaxObjs
      /\ restarts' = restarts + 1
      /\ store' = found
      /\ heap' = loadedTrades
      /\ activePositions' = [i \in 1..n |-> i]
      /\ nextId' = n + 1
      /\ virtualBudget' = IF VIRTUAL_BUDGET_SOL - n * TRADE_SIZE_SOL < 0 THEN 0
                         ELSE VIRTUAL_BUDGET_SOL - n * TRADE_SIZE_SOL
      /\ tasks' = [t \in Slots |-> Idle]
      /\ lastCall' = [op |-> "restart",
                       pre |-> [store |-> store, tasks |-> tasks,
                                activePositions |-> activePositions,
                                heap |-> heap]]
      /\ detector' = MainSubscribed
      /\ UNCHANGED <<completedTrades, now, calls>>

\* The process stops and is started again: initializeTrading, lines 56-74.
\* Every frame and object of the old process is gone; the loaded trades are
\* new objects; found is the trades file the new process finds.
Restart(found) ==
  LET loadedTrades == loadActiveTradesFrom(found)
      n == Len(loadedTrades)
  IN  /\ restarts < MaxRestarts
      /\ n <= MaxObjs
      /\ restarts' = restarts + 1
      /\ store' = found
      /\ heap' = loadedTrades
      /\ activePositions' = [i \in 1..n |-> i]
      /\ nextId' = n + 1
      /\ virtualBudget' = IF VIRTUAL_BUDGET_SOL < 0 THEN 0 ELSE VIRTUAL_BUDGET_SOL
      /\ tasks' = [t \in Slots |-> Idle]
      /\ lastCall' = [op |-> "restart",
                       pre |-> [store |-> store, tasks |-> tasks,
                                activePositions |-> activePositions,
                                heap |-> heap]]
      /\ detector' = MainSubscribed
      /\ UNCHANGED <<completedTrades, now, calls>>

\* The trades file a process that has stopped leaves to the next one: the
\* file as it is; for a stop during fs.writeFile, also the whole new text
\* or a text cut short (empty, or not JSON); and what the file can become
\* between the two runs: deleted, unreadable, or the JSON text of something
\* that is not an array.
FilesAfterStop ==
  {store}
    \cup {FileOf(tasks[t].data) : t \in {u \in Slots : tasks[u].pc = "write"}}
    \cup {[state |-> "file", data |-> text, written |-> <<>>] :
           text \in {EmptyText, GarbageText,
                     ObjectText(savedPosition("m1", 100, 100))}}
    \cup {AbsentStore, [state |-> "unreadable", data |-> EmptyText,
                        written |-> <<>>]}

\* -------------------------------------------------------- token qualifier
WRAPPED_SOL_MINT == "wsol"
MIN_LIQUIDITY_SOL == 10
MAX_POOL_AGE_MINUTES == 1

\* what getMintAccountInfo resolves to: null, or the mint with its freeze
\* authority (null or an address)
MintInfoOutcomes == {"null", "freeze_revoked", "freeze_held"}

\* what getPoolLiquidity (lines 325-346) resolves to: null, or the raw
\* account data, which carries no solAmount
Undefined == -1
NullLiquidity == [isNull |-> TRUE, rawData |-> FALSE, solAmount |-> Undefined]
RawLiquidity == [isNull |-> FALSE, rawData |-> TRUE, solAmount |-> Undefined]
LiquidityOutcomes == {NullLiquidity, RawLiquidity}

\* what a getPoolLiquidity that parses the account would resolve to (the
\* structure { solAmount, tokenAmount } analyzeTokenAndPool is written for),
\* and an object with neither rawData nor solAmount
ParsedLiquidity(solAmount) ==
  [isNull |-> FALSE, rawData |-> FALSE, solAmount |-> solAmount]
UnexpectedLiquidity == ParsedLiquidity(Undefined)
LiquidityInputs ==
  LiquidityOutcomes \cup {UnexpectedLiquidity}
    \cup {ParsedLiquidity(n) : n \in {0, MIN_LIQUIDITY_SOL - 1, MIN_LIQUIDITY_SOL}}

\* analyzeTokenAndPool has not returned
NoVerdict == [pending |-> TRUE]

Reject(reason) == [suitable |-> FALSE, reason |-> reason,
                   tokenMint |-> "none", poolId |-> "none"]

\* faulty variant: the first mint of the pool is reported as the new token
AcceptTokenA(poolData, newTokenMint) ==
  [suitable |-> TRUE, reason |-> "all_checks_passed",
   tokenMint |-> poolData.tokenA_mint, poolId |-> poolData.ammId]

\* lines 214-216
Accept(poolData, newTokenMint) ==
  [suitable |-> TRUE, reason |-> "all_checks_passed",
   tokenMint |-> newTokenMint, poolId |-> poolData.ammId]

\* lines 122-131; "none" is null, or a mint the pool data lacks
solMintOf(poolData) ==
  IF poolData.tokenA_mint = WRAPPED_SOL_MINT THEN poolData.tokenA_mint
  ELSE IF poolData.tokenB_mint = WRAPPED_SOL_MINT THEN poolData.tokenB_mint
  ELSE "none"

newTokenMintOf(poolData) ==
  IF poolData.tokenA_mint = WRAPPED_SOL_MINT THEN poolData.tokenB_mint
  ELSE IF poolData.tokenB_mint = WRAPPED_SOL_MINT THEN poolData.tokenA_mint
  ELSE "none"

\* faulty variants of the synchronous part: a pool of exactly the maximum
\* age is too old; a pool of wrapped SOL with itself passes
beforeMintInfoAgeInclusive(poolData, currentTime) ==
  LET poolAgeMinutes == currentTime - poolData.timestamp
  IN  IF poolAgeMinutes >= MAX_POOL_AGE_MINUTES THEN Reject("pool_too_old")
      ELSE IF solMintOf(poolData) = "none" \/ newTokenMintOf(poolData) = "none"
           THEN Reject("not_a_sol_pair")
      ELSE IF newTokenMintOf(poolData) = WRAPPED_SOL_MINT
           THEN Reject("new_token_is_sol")
      ELSE NoVerdict

beforeMintInfoSolWithSol(poolData, currentTime) ==
  LET poolAgeMinutes == currentTime - poolData.timestamp
  IN  IF poolAgeMinutes > MAX_POOL_AGE_MINUTES THEN Reject("pool_too_old")
      ELSE IF solMintOf(poolData) = "none" \/ newTokenMintOf(poolData) = "none"
           THEN Reject("not_a_sol_pair")
      ELSE NoVerdict

\* analyzeTokenAndPool, lines 110-143, up to the await of getMintAccountInfo:
\* the verdict it returns, or NoVerdict when it goes on.  currentTime is
\* Date.now() at the call.
beforeMintInfo(poolData, currentTime) ==
  LET poolAgeMinutes == currentTime - poolData.timestamp
  IN  IF poolAgeMinutes > MAX_POOL_AGE_MINUTES THEN Reject("pool_too_old")
      ELSE IF solMintOf(poolData) = "none" \/ newTokenMintOf(poolData) = "none"
           THEN Reject("not_a_sol_pair")
      ELSE IF newTokenMintOf(poolData) = WRAPPED_SOL_MINT
           THEN Reject("new_token_is_sol")
      ELSE NoVerdict

\* faulty variant: the freeze authority is not looked at
afterMintInfoNullOnly(mintInfo) ==
  IF mintInfo = "null" THEN Reject("no_mint_info") ELSE NoVerdict

\* lines 147-160, once getMintAccountInfo has resolved, up to the await of
\* getPoolLiquidity
afterMintInfo(mintInfo) ==
  IF mintInfo = "null" THEN Reject("no_mint_info")
  ELSE IF mintInfo # "freeze_revoked" THEN Reject("freeze_authority")
  ELSE NoVerdict

\* lines 167-216, once getPoolLiquidity has resolved
afterLiquidity(poolData, liquidityData) ==
  IF liquidityData.isNull THEN Reject("no_liquidity_data")
  ELSE IF liquidityData.rawData /\ liquidityData.solAmount \in {Undefined, 0}
       THEN Accept(poolData, newTokenMintOf(poolData))
  ELSE IF liquidityData.solAmount # Undefined
       THEN IF liquidityData.solAmount < MIN_LIQUIDITY_SOL
            THEN Reject("insufficient_liquidity")
            ELSE Accept(poolData, newTokenMintOf(poolData))
  ELSE Reject("unexpected_liquidity_format")

\* analyzeTokenAndPool, lines 106-217, for the value currentTime of Date.now()
\* at the call and the outcomes of its two lookups
analyzeTokenAndPool(poolData, currentTime, mintInfo, liquidityData) ==
  IF beforeMintInfo(poolData, currentTime) # NoVerdict
  THEN beforeMintInfo(poolData, currentTime)
  ELSE IF afterMintInfo(mintInfo) # NoVerdict THEN afterMintInfo(mintInfo)
  ELSE afterLiquidity(poolData, liquidityData)

\* ----------------------------------------------------------- handleNewPool
\* the pool event the detector builds for a pool that pairs wrapped SOL
\* with tokenMint
poolDataOf(tokenMint, timestamp) ==
  [ammId |-> PoolOf(tokenMint), timestamp |-> timestamp,
   tokenA_mint |-> WRAPPED_SOL_MINT, tokenB_mint |-> tokenMint]

\* index.js lines 42-47: the detector calls handleNewPool(poolData) for a
\* pool created just now, which awaits analyzeTokenAndPool; the frame keeps
\* the time of the call in idx
NewPool(t, tokenMint) ==
  /\ FirstFree(t)
  /\ tasks' = [tasks EXCEPT ![t] =
                 [Idle EXCEPT !.kind = "pool", !.pc = "analyze",
                              !.mint = tokenMint, !.idx = now]]
  /\ UNCHANGED <<ledger, store, completedTrades, now, restarts, caller, detector>>

\* index.js lines 47-53: the analysis resolves; a suitable pool goes on to
\* the price lookup
HandlerAnalyzed(t, mintInfo, liquidityData) ==
  LET analysisResult == analyzeTokenAndPool(poolDataOf(tasks[t].mint, tasks[t].idx),
                                            tasks[t].idx, mintInfo, liquidityData)
  IN  /\ tasks[t].kind = "pool"
      /\ tasks[t].pc = "analyze"
      /\ tasks' = [tasks EXCEPT ![t] =
                     IF analysisResult.suitable
                     THEN [@ EXCEPT !.pc = "price", !.mint = analysisResult.tokenMint,
                                    !.idx = 0]
                     ELSE Idle]
      /\ UNCHANGED <<ledger, store, completedTrades, now, restarts, caller, detector>>

\* index.js lines 53-60: the price lookup resolves; with a valid price
\* simulateBuy is called and awaited
HandlerPrice(t, currentPrice, r) ==
  /\ tasks[t].kind = "pool"
  /\ tasks[t].pc = "price"
  /\ IF currentPrice # NoPrice /\ currentPrice > 0
     THEN /\ simulateBuy(t, tasks[t].mint, PoolOf(tasks[t].mint), currentPrice, r,
                         tasks[t], Idle)
          /\ nextId' <= MaxObjs + 1
     ELSE /\ tasks' = [tasks EXCEPT ![t] = Idle]
          /\ UNCHANGED <<ledger, completedTrades>>
  /\ UNCHANGED <<store, now, restarts, caller, detector>>

\* ------------------------------------------- direct calls of the qualifier
\* The pool events a caller passes to analyzeTokenAndPool: each mint is
\* wrapped SOL, a token, or missing ("none"); the pool was created before
\* the process started (-1) or at a time of its clock.
PoolMints == {WRAPPED_SOL_MINT, "m1", "m2", "none"}
Pools == {"p1", "p2"}
PoolTimestamps == -1..MaxTime
PoolEvents == [ammId : Pools, timestamp : PoolTimestamps,
               tokenA_mint : PoolMints, tokenB_mint : PoolMints]

\* a lookup analyzeTokenAndPool issues
Lookup(fn, arg) == [fn |-> fn, arg |-> arg]

\* What the caller observes of a call of analyzeTokenAndPool: the event,
\* Date.now() at the call, the lookups issued so far with what they resolved
\* to, and the verdict once it has returned.
Analysis(poolData, lookups, result) ==
  [op |-> "analyze", poolData |-> poolData, currentTime |-> now,
   lookups |-> lookups, mintInfo |-> "none", liquidityData |-> NoVerdict,
   result |-> result]

\* faulty variant: the mint is looked up before the age and the pair are
\* checked
AnalyzeCallLookupFirst(t, poolData) ==
  LET verdict == beforeMintInfo(poolData, now)
  IN  /\ FirstFree(t)
      /\ lastCall = NoCall
      /\ lastCall' = Analysis(poolData,
                        <<Lookup("getMintAccountInfo", newTokenMintOf(poolData))>>,
                        verdict)
      /\ tasks' = [tasks EXCEPT ![t] =
                     IF verdict = NoVerdict
                     THEN [Idle EXCEPT !.kind = "analyze", !.pc = "mintInfo"]
                     ELSE Idle]
      /\ UNCHANGED <<ledger, store, completedTrades, now, restarts, calls, detector>>

\* a caller calls analyzeTokenAndPool(poolData) and awaits it: lines 106-146
AnalyzeCall(t, poolData) ==
  LET verdict == beforeMintInfo(poolData, now)
  IN  /\ FirstFree(t)
      /\ lastCall = NoCall
      /\ lastCall' = Analysis(poolData,
                        IF verdict = NoVerdict
                        THEN <<Lookup("getMintAccountInfo", newTokenMintOf(poolData))>>
                        ELSE <<>>,
                        verdict)
      /\ tasks' = [tasks EXCEPT ![t] =
                     IF verdict = NoVerdict
                     THEN [Idle EXCEPT !.kind = "analyze", !.pc = "mintInfo"]
                     ELSE Idle]
      /\ UNCHANGED <<ledger, store, completedTrades, now, restarts, calls, detector>>

\* getMintAccountInfo resolves: lines 146-165
AnalyzeMintInfo(t, mintInfo) ==
  LET verdict == afterMintInfo(mintInfo)
  IN  /\ tasks[t].kind = "analyze"
      /\ tasks[t].pc = "mintInfo"
      /\ lastCall' = [lastCall EXCEPT
                        !.mintInfo = mintInfo,
                        !.result = verdict,
                        !.lookups = IF verdict = NoVerdict
                                    THEN Append(@, Lookup("getPoolLiquidity",
                                                          lastCall.poolData.ammId))
                                    ELSE @]
      /\ tasks' = [tasks EXCEPT ![t] =
                     IF verdict = NoVerdict THEN [@ EXCEPT !.pc = "liquidity"]
                     ELSE Idle]
      /\ UNCHANGED <<ledger, store, completedTrades, now, restarts, calls, detector>>

\* getPoolLiquidity resolves: lines 165-217
AnalyzeLiquidity(t, liquidityData) ==
  /\ tasks[t].kind = "analyze"
  /\ tasks[t].pc = "liquidity"
  /\ lastCall' = [lastCall EXCEPT
                    !.liquidityData = liquidityData,
                    !.result = afterLiquidity(lastCall.poolData, liquidityData)]
  /\ tasks' = [tasks EXCEPT ![t] = Idle]
  /\ UNCHANGED <<ledger, store, completedTrades, now, restarts, calls, detector>>

\* -------------------------------------------- direct calls of the detector
\* a caller calls subscribeToNewPools(handler); the call is synchronous
SubscribeCall(handler, throws) ==
  /\ lastCall = NoCall
  /\ detector' = subscribeToNewPools(handler, throws)
  /\ detector'.nextSubscription <= MaxSubscriptions
  /\ lastCall' = [op |-> "subscribe", handler |-> handler, throws |-> throws,
                   pre |-> detector]
  /\ UNCHANGED <<ledger, store, completedTrades, tasks, now, restarts, calls>>

\* the caller goes on after subscribeToNewPools or unsubscribeFromNewPools
\* has returned, the event loop after a run of the listener callback
SubscribeReturn ==
  /\ lastCall # NoCall
  /\ lastCall.op \in {"subscribe", "unsubscribe", "notification"}
  /\ lastCall' = NoCall
  /\ UNCHANGED <<ledger, store, completedTrades, tasks, now, restarts, calls,
                 detector>>

\* a caller calls unsubscribeFromNewPools and awaits it, lines 520-532:
\* with a subscription it awaits removeProgramAccountChangeListener, with
\* none it returns
UnsubscribeCall ==
  /\ lastCall = NoCall
  /\ detector.removing = NoSubscription
  /\ detector.poolSubscriptionId # NoSubscription
  /\ detector' = [detector EXCEPT !.removing = detector.poolSubscriptionId]
  /\ UNCHANGED <<ledger, store, completedTrades, tasks, now, restarts, caller>>

\* removeProgramAccountChangeListener settles, lines 523-528, and
\* unsubscribeFromNewPools returns to its caller: when the removal resolves
\* the listener is gone; when it rejects, the listener is gone or not
UnsubscribeSettle(ok, removed) ==
  /\ lastCall = NoCall
  /\ detector.removing # NoSubscription
  /\ ok => removed
  /\ detector' = unsubscribeFromNewPools(ok, removed)
  /\ lastCall' = [op |-> "unsubscribe",
                   result |-> IF ok THEN "resolved" ELSE "rejected",
                   pre |-> detector]
  /\ UNCHANGED <<ledger, store, completedTrades, tasks, now, restarts, calls>>

\* unsubscribeFromNewPools with poolSubscriptionId null, lines 529-531: a
\* log line, and the call returns
UnsubscribeNone ==
  /\ lastCall = NoCall
  /\ detector.removing = NoSubscription
  /\ detector.poolSubscriptionId = NoSubscription
  /\ lastCall' = [op |-> "unsubscribe", result |-> "none", pre |-> detector]
  /\ UNCHANGED <<ledger, store, completedTrades, tasks, now, restarts, calls,
                 detector>>

\* the connection calls a registered listener with an account change,
\* line 390; since are the notifications already finished
Notify(listener) ==
  /\ lastCall = NoCall
  /\ listener \in detector.listeners
  /\ detector.nextNotification < MaxNotifications
  /\ detector' = [detector EXCEPT
        !.notifications = @ \cup
          {Notification(detector.nextNotification, listener,
             {f.n : f \in {g \in detector.notifications :
                               g.pc \notin {"signatures", "transaction"}}})},
        !.nextNotification = @ + 1]
  /\ UNCHANGED <<ledger, store, completedTrades, tasks, now, restarts, caller>>

\* getSignaturesForAddress settles for a notification, lines 413-417
NotifySignatures(frame, signatures) ==
  /\ lastCall = NoCall
  /\ frame \in detector.notifications
  /\ frame.pc = "signatures"
  /\ detector' = [detector EXCEPT
        !.notifications = (@ \ {frame}) \cup {afterSignatures(frame, signatures)}]
  /\ lastCall' = [op |-> "notification", n |-> frame.n, pre |-> detector]
  /\ UNCHANGED <<ledger, store, completedTrades, tasks, now, restarts, calls>>

\* getTransactionDetails settles for a notification, lines 417-505: the
\* rest of the callback, with the call of onNewPoolDetectedCallback
NotifyTransaction(frame, found) ==
  LET txDetails == getTransactionDetails(frame.signature, found)
      pc == afterTransaction(txDetails)
  IN  /\ lastCall = NoCall
      /\ frame \in detector.notifications
      /\ frame.pc = "transaction"
      /\ detector' = [detector EXCEPT
            !.notifications = (@ \ {frame}) \cup
              {[frame EXCEPT !.pc = pc, !.txDetails = txDetails]},
            !.delivered = IF pc = "delivered"
                          THEN Append(@, PoolEvent(frame)) ELSE @]
      /\ lastCall' = [op |-> "notification", n |-> frame.n, pre |-> detector]
      /\ UNCHANGED <<ledger, store, completedTrades, tasks, now, restarts, calls>>

\* ------------------------------------------------------------- exit sweep
\* monitorTrades goes on to its next position, or returns
Advance(frame) ==
  IF frame.idx < Len(frame.snap)
  THEN [frame EXCEPT !.idx = @ + 1, !.pc = "price", !.op = "none",
                     !.arr = NoRef, !.data = <<>>, !.price = NoPrice]
  ELSE Idle

\* faulty variant: the peak is the one the position had when monitorTrades
\* took its copy of the array
activePeakPriceOfSnapshot(frame) ==
  frame.seen[frame.idx].peakPrice

\* checkExitConditions, lines 54-62: the peak that the trailing stop is
\* compared with, read from the position found in the array after
\* updatePeakPrice has returned
activePeakPrice(frame) ==
  LET position == heap[frame.snap[frame.idx]]
      found == FindByMint(activePositions, heap, position.tokenMintAddress)
      potentiallyUpdatedPosition == heap[found]
  IN  potentiallyUpdatedPosition.peakPrice

\* faulty variant: a position that is gone at the re-read is logged as closed
exitRulesLogsMissing(t, frame, currentPriceInSol, r) ==
  LET position == heap[frame.snap[frame.idx]]
      found == FindByMint(activePositions, heap, position.tokenMintAddress)
      potentiallyUpdatedPosition == heap[found]
      buyPrice == potentiallyUpdatedPosition.buyPrice
      \* (currentPriceInSol - buyPrice) / buyPrice >= PROFIT_TARGET_PERCENT
      profitTargetHit ==
        (currentPriceInSol - buyPrice) * RateOne >= PROFIT_TARGET_PERCENT * buyPrice
      \* activePeakPrice > buyPrice * (1 + PROFIT_TARGET_PERCENT)
      profitTargetAchievedPreviously ==
        activePeakPrice(frame) * RateOne
          > buyPrice * (RateOne + PROFIT_TARGET_PERCENT)
      \* currentPriceInSol < activePeakPrice * (1 - TRAILING_STOP_PERCENT)
      belowStop ==
        currentPriceInSol * RateOne
          < activePeakPrice(frame) * (RateOne - TRAILING_STOP_PERCENT)
      elapsedMinutes == now - potentiallyUpdatedPosition.buyTimestamp
      sell(exitReason) == simulateSell(t, found, currentPriceInSol, exitReason, r,
                                       frame, Advance(frame))
  IN  IF found = Null
      THEN /\ tasks' = [tasks EXCEPT ![t] = Advance(frame)]
           /\ completedTrades' = Append(completedTrades,
                completedTradeData(position, currentPriceInSol, 0,
                                   "time_limit", Null))
           /\ UNCHANGED ledger
      ELSE IF profitTargetHit THEN sell("profit_target")
      ELSE IF profitTargetAchievedPreviously /\ belowStop THEN sell("trailing_stop")
      ELSE IF elapsedMinutes >= TRADE_TIME_LIMIT_MINUTES THEN sell("time_limit")
      ELSE /\ tasks' = [tasks EXCEPT ![t] = Advance(frame)]
           /\ UNCHANGED <<ledger, completedTrades>>

\* faulty variant: the profit target must be exceeded
exitRulesTargetExclusive(t, frame, currentPriceInSol, r) ==
  LET position == heap[frame.snap[frame.idx]]
      found == FindByMint(activePositions, heap, position.tokenMintAddress)
      potentiallyUpdatedPosition == heap[found]
      buyPrice == potentiallyUpdatedPosition.buyPrice
      \* (currentPriceInSol - buyPrice) / buyPrice >= PROFIT_TARGET_PERCENT
      profitTargetHit ==
        (currentPriceInSol - buyPrice) * RateOne > PROFIT_TARGET_PERCENT * buyPrice
      \* activePeakPrice > buyPrice * (1 + PROFIT_TARGET_PERCENT)
      profitTargetAchievedPreviously ==
        activePeakPrice(frame) * RateOne
          > buyPrice * (RateOne + PROFIT_TARGET_PERCENT)
      \* currentPriceInSol < activePeakPrice * (1 - TRAILING_STOP_PERCENT)
      belowStop ==
        currentPriceInSol * RateOne
          < activePeakPrice(frame) * (RateOne - TRAILING_STOP_PERCENT)
      elapsedMinutes == now - potentiallyUpdatedPosition.buyTimestamp
      sell(exitReason) == simulateSell(t, found, currentPriceInSol, exitReason, r,
                                       frame, Advance(frame))
  IN  IF found = Null
      THEN /\ tasks' = [tasks EXCEPT ![t] = Advance(frame)]
           /\ UNCHANGED <<ledger, completedTrades>>
      ELSE IF profitTargetHit THEN sell("profit_target")
      ELSE IF profitTargetAchievedPreviously /\ belowStop THEN sell("trailing_stop")
      ELSE IF elapsedMinutes >= TRADE_TIME_LIMIT_MINUTES THEN sell("time_limit")
      ELSE /\ tasks' = [tasks EXCEPT ![t] = Advance(frame)]
           /\ UNCHANGED <<ledger, completedTrades>>

\* faulty variant: the time limit is checked before the price rules
exitRulesTimeLimitFirst(t, frame, currentPriceInSol, r) ==
  LET position == heap[frame.snap[frame.idx]]
      found == FindByMint(activePositions, heap, position.tokenMintAddress)
      potentiallyUpdatedPosition == heap[found]
      buyPrice == potentiallyUpdatedPosition.buyPrice
      \* (currentPriceInSol - buyPrice) / buyPrice >= PROFIT_TARGET_PERCENT
      profitTargetHit ==
        (currentPriceInSol - buyPrice) * RateOne >= PROFIT_TARGET_PERCENT * buyPrice
      \* activePeakPrice > buyPrice * (1 + PROFIT_TARGET_PERCENT)
      profitTargetAchievedPreviously ==
        activePeakPrice(frame) * RateOne
          > buyPrice * (RateOne + PROFIT_TARGET_PERCENT)
      \* currentPriceInSol < activePeakPrice * (1 - TRAILING_STOP_PERCENT)
      belowStop ==
        currentPriceInSol * RateOne
          < activePeakPrice(frame) * (RateOne - TRAILING_STOP_PERCENT)
      elapsedMinutes == now - potentiallyUpdatedPosition.buyTimestamp
      sell(exitReason) == simulateSell(t, found, currentPriceInSol, exitReason, r,
                                       frame, Advance(frame))
  IN  IF found = Null
      THEN /\ tasks' = [tasks EXCEPT ![t] = Advance(frame)]
           /\ UNCHANGED <<ledger, completedTrades>>
      ELSE IF elapsedMinutes >= TRADE_TIME_LIMIT_MINUTES THEN sell("time_limit")
      ELSE IF profitTargetHit THEN sell("profit_target")
      ELSE IF profitTargetAchievedPreviously /\ belowStop THEN sell("trailing_stop")
      ELSE /\ tasks' = [tasks EXCEPT ![t] = Advance(frame)]
           /\ UNCHANGED <<ledger, completedTrades>>

\* checkExitConditions, lines 53-91, for the frame of the sweep, the price
\* currentPriceInSol and the sample r of Math.random()
exitRules(t, frame, currentPriceInSol, r) ==
  LET position == heap[frame.snap[frame.idx]]
      found == FindByMint(activePositions, heap, position.tokenMintAddress)
      potentiallyUpdatedPosition == heap[found]
      buyPrice == potentiallyUpdatedPosition.buyPrice
      \* (currentPriceInSol - buyPrice) / buyPrice >= PROFIT_TARGET_PERCENT
      profitTargetHit ==
        (currentPriceInSol - buyPrice) * RateOne >= PROFIT_TARGET_PERCENT * buyPrice
      \* activePeakPrice > buyPrice * (1 + PROFIT_TARGET_PERCENT)
      profitTargetAchievedPreviously ==
        activePeakPrice(frame) * RateOne
          > buyPrice * (RateOne + PROFIT_TARGET_PERCENT)
      \* currentPriceInSol < activePeakPrice * (1 - TRAILING_STOP_PERCENT)
      belowStop ==
        currentPriceInSol * RateOne
          < activePeakPrice(frame) * (RateOne - TRAILING_STOP_PERCENT)
      elapsedMinutes == now - potentiallyUpdatedPosition.buyTimestamp
      sell(exitReason) == simulateSell(t, found, currentPriceInSol, exitReason, r,
                                       frame, Advance(frame))
  IN  IF found = Null
      THEN /\ tasks' = [tasks EXCEPT ![t] = Advance(frame)]
           /\ UNCHANGED <<ledger, completedTrades>>
      ELSE IF profitTargetHit THEN sell("profit_target")
      ELSE IF profitTargetAchievedPreviously /\ belowStop THEN sell("trailing_stop")
      ELSE IF elapsedMinutes >= TRADE_TIME_LIMIT_MINUTES THEN sell("time_limit")
      ELSE /\ tasks' = [tasks EXCEPT ![t] = Advance(frame)]
           /\ UNCHANGED <<ledger, completedTrades>>

\* index.js lines 76-82 and monitorTrades, lines 98-120: the timer fires,
\* whether or not an earlier sweep is still running; the sweep copies the
\* array and awaits the price of its first position
SweepStart(t) ==
  /\ FirstFree(t)
  /\ Len(activePositions) # 0
  /\ tasks' = [tasks EXCEPT ![t] =
                 [Idle EXCEPT !.kind = "sweep", !.pc = "price",
                              !.snap = getActivePositions,
                              !.seen = Stringify(getActivePositions, heap),
                              !.idx = 1]]
  /\ UNCHANGED <<ledger, store, completedTrades, now, restarts, caller, detector>>

\* faulty variant: only a null price skips the position
checkExitConditionsNullOnly(t, currentPriceInSol, r) ==
  LET frame == tasks[t]
      position == heap[frame.snap[frame.idx]]
  IN  /\ frame.kind = "sweep"
      /\ frame.pc = "price"
      /\ IF currentPriceInSol = NoPrice
         THEN /\ tasks' = [tasks EXCEPT ![t] = Advance(frame)]
              /\ UNCHANGED <<ledger, completedTrades>>
         ELSE IF PeakRises(position.tokenMintAddress, currentPriceInSol)
         THEN updatePeakPrice(t, position.tokenMintAddress, currentPriceInSol,
                              [frame EXCEPT !.price = currentPriceInSol])
         ELSE exitRules(t, frame, currentPriceInSol, r)

\* checkExitConditions, lines 22-35: the price lookup resolves.  Without a
\* valid price the position is skipped; with one, updatePeakPrice is called,
\* and when it does not write the checks follow at once.
checkExitConditions(t, currentPriceInSol, r) ==
  LET frame == tasks[t]
      position == heap[frame.snap[frame.idx]]
  IN  /\ frame.kind = "sweep"
      /\ frame.pc = "price"
      /\ IF currentPriceInSol = NoPrice \/ currentPriceInSol <= 0
         THEN /\ tasks' = [tasks EXCEPT ![t] = Advance(frame)]
              /\ UNCHANGED <<ledger, completedTrades>>
         ELSE IF PeakRises(position.tokenMintAddress, currentPriceInSol)
         THEN updatePeakPrice(t, position.tokenMintAddress, currentPriceInSol,
                              [frame EXCEPT !.price = currentPriceInSol])
         ELSE exitRules(t, frame, currentPriceInSol, r)

\* faulty variant: after a peak update the rules are not evaluated
afterUpdatePeakPriceReturns(t, ok, r) ==
  LET frame == tasks[t]
  IN  /\ frame.kind = "sweep"
      /\ frame.pc = "write"
      /\ frame.op = "peak"
      /\ store' = saveWrite(frame, ok)
      /\ tasks' = [tasks EXCEPT ![t] = Advance([frame EXCEPT !.data = <<>>])]
      /\ UNCHANGED <<ledger, completedTrades>>

\* checkExitConditions, lines 35-91: the save of updatePeakPrice settles
\* and the checks follow
afterUpdatePeakPrice(t, ok, r) ==
  LET frame == tasks[t]
  IN  /\ frame.kind = "sweep"
      /\ frame.pc = "write"
      /\ frame.op = "peak"
      /\ store' = saveWrite(frame, ok)
      /\ exitRules(t, [frame EXCEPT !.data = <<>>], frame.price, r)

\* the price lookup of a sweep of the running bot resolves
SweepPrice(t, currentPriceInSol, r) ==
  /\ checkExitConditions(t, currentPriceInSol, r)
  /\ UNCHANGED <<store, now, restarts, caller, detector>>

\* the save of updatePeakPrice settles and checkExitConditions goes on
SweepPeakSaved(t, ok, r) ==
  /\ afterUpdatePeakPrice(t, ok, r)
  /\ UNCHANGED <<now, restarts, caller, detector>>

\* the save of simulateSell settles; checkExitConditions returns true and
\* monitorTrades goes on
SweepSellSaved(t, ok) ==
  LET frame == tasks[t]
  IN  /\ frame.kind = "sweep"
      /\ frame.pc = "write"
      /\ frame.op = "sell"
      /\ store' = saveWrite(frame, ok)
      /\ tasks' = [tasks EXCEPT ![t] = Advance(frame)]
      /\ UNCHANGED <<ledger, completedTrades, now, restarts, caller, detector>>

\* ------------------------------------- the exit engine, price by price
\* the valid prices each position has been evaluated with so far
Paths == IF lastCall.op = "check" THEN lastCall.paths
         ELSE [m \in Mints |-> <<>>]

\* what a run of checkExitConditions is observed to do: the position it was
\* given, the price, the ledger before, the clock when the rules are
\* evaluated, and the outcome (skipped, peak while updatePeakPrice saves,
\* sold, kept)
Check(t, currentPriceInSol) ==
  LET pos == tasks[t].snap[tasks[t].idx]
      valid == currentPriceInSol # NoPrice /\ currentPriceInSol > 0
  IN  [op |-> "check", pos |-> pos, position |-> heap[pos],
       price |-> currentPriceInSol, time |-> now,
       pre |-> [virtualBudget |-> virtualBudget,
                activePositions |-> activePositions, heap |-> heap,
                completedTrades |-> completedTrades, store |-> store],
       frame |-> tasks[t], next |-> tasks'[t],
       peak |-> IF valid /\ tasks'[t].op # "peak"
                THEN activePeakPrice(tasks[t]) ELSE NoPrice,
       paths |-> IF valid
                 THEN [Paths EXCEPT ![heap[pos].tokenMintAddress] =
                         Append(@, currentPriceInSol)]
                 ELSE Paths,
       result |-> IF ~valid THEN "skipped"
                  ELSE IF tasks'[t].op = "peak" THEN "peak"
                  ELSE IF Len(completedTrades') > Len(completedTrades)
                  THEN "sold" ELSE "kept"]

\* monitorTrades awaits checkExitConditions, line 120, and the price
\* lookup of line 22 resolves
CheckPrice(t, currentPriceInSol, r) ==
  /\ tasks[t].kind = "sweep"
  /\ tasks[t].pc = "price"
  /\ Len(Paths[heap[tasks[t].snap[tasks[t].idx]].tokenMintAddress]) < MaxPath
  /\ checkExitConditions(t, currentPriceInSol, r)
  /\ lastCall' = Check(t, currentPriceInSol)
  /\ UNCHANGED <<store, now, restarts, calls, detector>>

\* the save of updatePeakPrice settles, line 35, and the rules of lines
\* 53-91 are evaluated
CheckPeakSaved(t, ok, r) ==
  /\ afterUpdatePeakPrice(t, ok, r)
  /\ lastCall' = [lastCall EXCEPT
                    !.time = now,
                    !.next = tasks'[t],
                    !.peak = activePeakPrice(tasks[t]),
                    !.result = IF Len(completedTrades') > Len(completedTrades)
                               THEN "sold" ELSE "kept"]
  /\ UNCHANGED <<now, restarts, calls, detector>>

\* one monitorTrades at a time: the timer fires after the sweep before it
\* has returned
ExitNext ==
  \/ \E t \in Callers : SweepStart(t)
  \/ \E t \in Callers, p \in ExitPriceOutcomes, r \in BotSamples :
       CheckPrice(t, p, r)
  \/ \E t \in Callers, ok \in BOOLEAN, r \in BotSamples :
       CheckPeakSaved(t, ok, r)
  \/ \E t \in Callers, ok \in BOOLEAN : SweepSellSaved(t, ok)
  \/ \E t \in Callers : SaveAccess(t)
  \/ Tick

ExitSpec == Init /\ [][ExitNext]_vars

LedgerNext ==
  \/ \E t \in Callers, m \in Mints, p \in BuyPrices, r \in RandomSamples :
       ApiBuy(t, m, p, r)
  \/ \E t \in Callers, pos \in DOMAIN heap \cup {Null}, p \in Prices,
        e \in CallerReasons, r \in RandomSamples :
       ApiSell(t, pos, p, e, r)
  \/ \E t \in Callers, m \in Mints, p \in Prices : ApiUpdatePeak(t, m, p)
  \/ \E t \in Callers : ApiReturn(t)
  \/ \E t \in Slots : SaveAccess(t)
  \/ \E t \in Slots, ok \in BOOLEAN : SaveWrite(t, ok)

\* a caller of the ledger's exported functions that awaits each call
LedgerSpec == Init /\ [][LedgerNext]_vars

\* the prices and samples of the calls made around a restart
RestartPrices == {100, 120}
RestartSamples == {0}

\* a caller of the ledger's exported functions, and a process that is
\* stopped at any moment and started again
RestartNext ==
  \/ \E t \in Callers, m \in Mints, p \in RestartPrices, r \in RestartSamples :
       ApiBuy(t, m, p, r)
  \/ \E t \in Callers, pos \in DOMAIN heap, p \in RestartPrices,
        e \in CallerReasons, r \in RestartSamples :
       ApiSell(t, pos, p, e, r)
  \/ \E t \in Callers, m \in Mints, p \in RestartPrices : ApiUpdatePeak(t, m, p)
  \/ \E t \in Callers : ApiReturn(t)
  \/ \E t \in Slots : SaveAccess(t)
  \/ \E t \in Slots, ok \in BOOLEAN : SaveWrite(t, ok)
  \/ \E found \in FilesAfterStop : Restart(found)

RestartSpec == Init /\ [][RestartNext]_vars

Next ==
  \/ \E t \in Slots, m \in DetectedMints : NewPool(t, m)
  \/ \E t \in Slots, mi \in MintInfoOutcomes, l \in LiquidityOutcomes :
       HandlerAnalyzed(t, mi, l)
  \/ \E t \in Slots, p \in PriceOutcomes, r \in BotSamples :
       HandlerPrice(t, p, r)
  \/ \E t \in Slots : SweepStart(t)
  \/ \E t \in Slots, p \in PriceOutcomes, r \in BotSamples :
       SweepPrice(t, p, r)
  \/ \E t \in Slots, ok \in BOOLEAN, r \in BotSamples :
       SweepPeakSaved(t, ok, r)
  \/ \E t \in Slots, ok \in BOOLEAN : SweepSellSaved(t, ok)
  \/ \E t \in Slots : SaveAccess(t)
  \/ \E t \in Slots, ok \in BOOLEAN : SaveWrite(t, ok)
  \/ Tick

\* the bot in a process that found no trades file
FreshStart == Init /\ store = AbsentStore
FreshSpec == FreshStart /\ [][Next]_vars

\* the timer fires when no earlier sweep is running
SweepStartAlone(t) ==
  /\ \A u \in Slots : tasks[u].kind # "sweep"
  /\ SweepStart(t)

\* The price lookups of these sweeps answer: no price, the buy price of a
\* loaded position, a price below its profit target, the target.
SequentialNext ==
  \/ \E t \in Slots, m \in DetectedMints : NewPool(t, m)
  \/ \E t \in Slots, mi \in MintInfoOutcomes, l \in LiquidityOutcomes :
       HandlerAnalyzed(t, mi, l)
  \/ \E t \in Slots, p \in PriceOutcomes, r \in BotSamples :
       HandlerPrice(t, p, r)
  \/ \E t \in Slots : SweepStartAlone(t)
  \/ \E t \in Slots, p \in {NoPrice, 100, 110, 115}, r \in BotSamples :
       SweepPrice(t, p, r)
  \/ \E t \in Slots, ok \in BOOLEAN, r \in BotSamples :
       SweepPeakSaved(t, ok, r)
  \/ \E t \in Slots, ok \in BOOLEAN : SweepSellSaved(t, ok)
  \/ \E t \in Slots : SaveAccess(t)
  \/ \E t \in Slots, ok \in BOOLEAN : SaveWrite(t, ok)
  \/ Tick

\* the bot with sweeps that do not overlap, in a process whose loaded
\* positions are as simulateBuy made them (peakPrice = buyPrice)
SequentialStart ==
  /\ Init
  /\ \A id \in DOMAIN heap : heap[id].peakPrice = heap[id].buyPrice

SequentialSpec == SequentialStart /\ [][SequentialNext]_vars

\* ------------------------------------- overlapping sweeps, check by check
\* what a run of checkExitConditions is observed to do when it reads the
\* position again, line 54: the sweep, the position it was given, whether
\* an awaited updatePeakPrice came before, whether the position was found,
\* and the ledger at that moment
Reread(t, afterPeak) ==
  LET position == heap[tasks[t].snap[tasks[t].idx]]
  IN  [op |-> "reread", slot |-> t, position |-> position,
       afterPeak |-> afterPeak,
       found |-> FindByMint(activePositions, heap,
                            position.tokenMintAddress) # Null,
       pre |-> [virtualBudget |-> virtualBudget,
                activePositions |-> activePositions, heap |-> heap,
                completedTrades |-> completedTrades]]

\* the price lookup of a sweep resolves, line 22; the position is read
\* again at once when the price is valid and updatePeakPrice does not save
RereadPrice(t, currentPriceInSol, r) ==
  /\ checkExitConditions(t, currentPriceInSol, r)
  /\ lastCall' =
       IF /\ currentPriceInSol # NoPrice
          /\ currentPriceInSol > 0
          /\ ~PeakRises(heap[tasks[t].snap[tasks[t].idx]].tokenMintAddress,
                        currentPriceInSol)
       THEN Reread(t, FALSE)
       ELSE [op |-> "price", slot |-> t]
  /\ UNCHANGED <<store, now, restarts, calls, detector>>

\* the save of updatePeakPrice settles, line 35, and the position is read
\* again
RereadPeakSaved(t, ok, r) ==
  /\ afterUpdatePeakPrice(t, ok, r)
  /\ lastCall' = Reread(t, TRUE)
  /\ UNCHANGED <<now, restarts, calls, detector>>

\* sweeps that overlap: the timer fires whether or not the sweep before it
\* has returned
OverlapNext ==
  \/ \E t \in Slots : SweepStart(t)
  \/ \E t \in Slots, p \in PriceOutcomes, r \in BotSamples :
       RereadPrice(t, p, r)
  \/ \E t \in Slots, ok \in BOOLEAN, r \in BotSamples :
       RereadPeakSaved(t, ok, r)
  \/ \E t \in Slots, ok \in BOOLEAN : SweepSellSaved(t, ok)
  \/ \E t \in Slots : SaveAccess(t)
  \/ Tick

OverlapSpec == Init /\ [][OverlapNext]_vars

AnalyzerNext ==
  \/ \E t \in Callers, poolData \in PoolEvents : AnalyzeCall(t, poolData)
  \/ \E t \in Callers, mi \in MintInfoOutcomes : AnalyzeMintInfo(t, mi)
  \/ \E t \in Callers, l \in LiquidityInputs : AnalyzeLiquidity(t, l)
  \/ \E t \in Callers : ApiReturn(t)
  \/ Tick

\* ------------------------------------------- calls of the pricing functions
\* the arguments the two functions are called with: amounts and prices in
\* the units of the ledger, rates in basis points
SolAmounts == {0, 1, 100, TRADE_SIZE_SOL}
TokenAmounts == {0, 1, 83, 100}
PricingPrices == {-100, 0, 1, 100, 120}
Rates == {0, RAYDIUM_FEE_PERCENT, BuySlippageMin, SellSlippageMax, BuySlippageMax}

\* what a call is observed to do: its arguments, what the source computes
\* (result) and what the ledger of this model takes from it (units)
Priced(op, amount, result, units) ==
  [op |-> op, amount |-> amount, price |-> lastCall.price,
   fee |-> lastCall.fee, slippage |-> lastCall.slippage,
   result |-> result, units |-> units]

\* the module is loaded, lines 50-51, and nothing else has run
PricingInit ==
  /\ virtualBudget = VIRTUAL_BUDGET_SOL
  /\ activePositions = <<>>
  /\ heap = <<>>
  /\ nextId = 1
  /\ store = AbsentStore
  /\ completedTrades = <<>>
  /\ tasks = [t \in Slots |-> Idle]
  /\ now = 0
  /\ restarts = 0
  /\ calls = 0
  /\ detector = Unsubscribed
  /\ \E solAmount \in SolAmounts, tokenAmount \in TokenAmounts,
        price \in PricingPrices, fee \in Rates, slippage \in Rates :
       \* the caller holds the arguments of its next call
       lastCall = [op |-> "arguments", solAmount |-> solAmount,
                   tokenAmount |-> tokenAmount, price |-> price,
                   fee |-> fee, slippage |-> slippage]

\* calculateTokensForSol is called with the arguments held
CallTokensForSol ==
  /\ lastCall.op = "arguments"
  /\ lastCall' = Priced("calculateTokensForSol", lastCall.solAmount,
        tokensAfterSlippage(Frac(lastCall.solAmount, 1),
                            Frac(lastCall.price, 1), Frac(lastCall.fee, RateOne),
                            Frac(lastCall.slippage, RateOne)),
        calculateTokensForSol(lastCall.solAmount, lastCall.price,
                              lastCall.fee, lastCall.slippage))
  /\ UNCHANGED <<ledger, store, completedTrades, tasks, now, restarts, calls,
                 detector>>

\* calculateSolForTokens is called with the arguments held
CallSolForTokens ==
  /\ lastCall.op = "arguments"
  /\ lastCall' = Priced("calculateSolForTokens", lastCall.tokenAmount,
        solAfterSlippage(Frac(lastCall.tokenAmount, 1),
                         Frac(lastCall.price, 1), Frac(lastCall.fee, RateOne),
                         Frac(lastCall.slippage, RateOne)),
        calculateSolForTokens(lastCall.tokenAmount, lastCall.price,
                              lastCall.fee, lastCall.slippage))
  /\ UNCHANGED <<ledger, store, completedTrades, tasks, now, restarts, calls,
                 detector>>

PricingNext == CallTokensForSol \/ CallSolForTokens

\* a caller of calculateTokensForSol and calculateSolForTokens
PricingSpec == PricingInit /\ [][PricingNext]_vars

\* a caller of analyzeTokenAndPool that awaits each call, while the clock runs
AnalyzerSpec == Init /\ [][AnalyzerNext]_vars

DetectorNext ==
  \/ \E h \in Handlers, throws \in BOOLEAN : SubscribeCall(h, throws)
  \/ SubscribeReturn
  \/ UnsubscribeCall
  \/ \E ok, removed \in BOOLEAN : UnsubscribeSettle(ok, removed)
  \/ UnsubscribeNone
  \/ \E l \in detector.listeners : Notify(l)
  \/ \E f \in detector.notifications, sigs \in SignatureOutcomes :
       NotifySignatures(f, sigs)
  \/ \E f \in detector.notifications, found \in BOOLEAN :
       NotifyTransaction(f, found)

\* a caller of subscribeToNewPools and unsubscribeFromNewPools that awaits
\* each unsubscribeFromNewPools, and may subscribe while one is pending
DetectorSpec == DetectorInit /\ [][DetectorNext]_vars

\* the running bot: new-pool callbacks and exit sweeps on one event loop
Spec == Init /\ [][Next]_vars

\* the running bot on a file system whose writes all succeed
DurableNext ==
  \/ \E t \in Slots, m \in DetectedMints : NewPool(t, m)
  \/ \E t \in Slots, mi \in MintInfoOutcomes, l \in LiquidityOutcomes :
       HandlerAnalyzed(t, mi, l)
  \/ \E t \in Slots, p \in PriceOutcomes, r \in BotSamples :
       HandlerPrice(t, p, r)
  \/ \E t \in Slots : SweepStart(t)
  \/ \E t \in Slots, p \in PriceOutcomes, r \in BotSamples :
       SweepPrice(t, p, r)
  \/ \E t \in Slots, r \in BotSamples : SweepPeakSaved(t, TRUE, r)
  \/ \E t \in Slots : SweepSellSaved(t, TRUE)
  \/ \E t \in Slots : SaveAccess(t)
  \/ \E t \in Slots : SaveWrite(t, TRUE)
  \/ Tick

DurableSpec == Init /\ [][DurableNext]_vars

\* ------------------------------------------------------------- properties
\* the mints of the open positions, in order
OpenMints == [i \in 1..Len(activePositions) |->
                heap[activePositions[i]].tokenMintAddress]

HasOpen(mint) == \E i \in 1..Len(activePositions) : OpenMints[i] = mint

\* whether a position of the mint was open when the awaited call was made
WasOpen(mint) ==
  \E i \in 1..Len(lastCall.pre.activePositions) :
    lastCall.pre.heap[lastCall.pre.activePositions[i]].tokenMintAddress = mint

\* no saveActiveTrades is pending
Quiescent == \A t \in Slots : tasks[t].pc \notin {"access", "write"}

\* the file holds exactly the open positions, with their current fields
StoreIsMemory == loadActiveTrades = Stringify(activePositions, heap)

\* C1: after any sequence of Buy and Sell calls, in any interleaving of the
\* new-pool callback and the exit sweep, the budget is >= 0 and the number
\* of open positions is at most MAX_CONCURRENT_POSITIONS.
BudgetAndCountWithinLimits ==
  /\ virtualBudget >= 0
  /\ Len(activePositions) <= MAX_CONCURRENT_POSITIONS

\* a buy, a sell and a second buy have brought the budget below one trade
BudgetExhaustedAfterTrades ==
  /\ completedTrades # <<>>
  /\ Len(activePositions) > 0
  /\ virtualBudget < TRADE_SIZE_SOL

\* C2: Buy never succeeds where CanBuy(mint) is false: when the budget is
\* below the trade size, or the number of open positions has reached the
\* maximum, or a position of the mint is open, simulateBuy returns null and
\* changes neither the budget nor the positions.
BuyNeverBypassesCanBuy ==
  (/\ lastCall.op = "buy"
   /\ \/ lastCall.pre.virtualBudget < TRADE_SIZE_SOL
      \/ Len(lastCall.pre.activePositions) >= MAX_CONCURRENT_POSITIONS
      \/ WasOpen(lastCall.mint))
  => /\ lastCall.result = "null"
     /\ virtualBudget = lastCall.pre.virtualBudget
     /\ activePositions = lastCall.pre.activePositions
     /\ heap = lastCall.pre.heap

\* each condition has rejected a Buy at a valid price by itself: the budget
\* (here), the count and the open position of the mint (below)
BuyRejectedForBudget ==
  /\ lastCall.op = "buy"
  /\ lastCall.result = "null"
  /\ lastCall.price > 0
  /\ lastCall.pre.virtualBudget < TRADE_SIZE_SOL
  /\ Len(lastCall.pre.activePositions) < MAX_CONCURRENT_POSITIONS
  /\ ~WasOpen(lastCall.mint)

\* C3: in every reachable state there is at most one open position per
\* token mint, also when new-pool callbacks for the same mint overlap.
OnePositionPerMint ==
  \A i, j \in 1..Len(activePositions) : OpenMints[i] = OpenMints[j] => i = j

\* two callbacks for the same mint overlap: one has bought and awaits its
\* save, the other still awaits its price and will call simulateBuy
OverlappingCallbacksOneBought ==
  \E t, u \in Slots :
    /\ t # u
    /\ tasks[t].kind = "pool" /\ tasks[t].op = "buy"
    /\ tasks[u].kind = "pool" /\ tasks[u].pc = "price"
    /\ tasks[u].mint = tasks[t].mint
    /\ HasOpen(tasks[t].mint)

\* C4: at every point where no save is in progress, on a file system whose
\* writes all succeed, the file holds the serialization of the open
\* positions in memory: a restart would load exactly the positions of the
\* most recent Buy, Sell or UpdatePeak.
StoreHoldsLatestMutation ==
  Quiescent => StoreIsMemory

\* C5: two overlapping Sell calls for the same position cannot both
\* succeed: no position is the subject of two completed trades, so the
\* budget is credited for it at most once.
EachPositionSoldAtMostOnce ==
  \A i, j \in 1..Len(completedTrades) :
    (/\ completedTrades[i].run = completedTrades[j].run
     /\ completedTrades[i].sold = completedTrades[j].sold) => i = j

\* two sweeps overlap on one position: one has sold it and awaits its save,
\* the other holds it in its copy of the array and still awaits its price
OverlappingSweepsOneSold ==
  \E t, u \in Slots :
    /\ t # u
    /\ tasks[t].kind = "sweep" /\ tasks[t].op = "sell"
    /\ tasks[u].kind = "sweep" /\ tasks[u].pc = "price"
    /\ tasks[u].snap[tasks[u].idx] = tasks[t].snap[tasks[t].idx]
    /\ \E i \in 1..Len(completedTrades) :
         completedTrades[i].sold = tasks[t].snap[tasks[t].idx]

\* C6: a Buy changes the budget, the positions and the file as one unit:
\* while the write of a Buy is pending, no sweep holds a copy of the array
\* (getActivePositions) with a position of a mint the file does not hold.
NoReadOfUnsavedBuy ==
  \A t, u \in Slots :
    (/\ tasks[t].op = "buy" /\ tasks[t].pc \in {"access", "write"}
     /\ tasks[u].kind = "sweep")
    => \A i \in 1..Len(tasks[u].snap) :
         \E k \in 1..Len(loadActiveTrades) :
           loadActiveTrades[k].tokenMintAddress =
             heap[tasks[u].snap[i]].tokenMintAddress

\* C7: a Sell for a position whose mint has no open position is rejected
\* with no state change: the budget, the positions and the file are
\* unchanged and no completed trade is logged.
SellWithoutPositionRejected ==
  (/\ lastCall.op = "sell"
   /\ (lastCall.pos = Null \/ ~WasOpen(lastCall.mint)))
  => /\ lastCall.result = "null"
     /\ virtualBudget = lastCall.pre.virtualBudget
     /\ activePositions = lastCall.pre.activePositions
     /\ heap = lastCall.pre.heap
     /\ store = lastCall.pre.store
     /\ completedTrades = lastCall.pre.completedTrades

\* a Sell of a position sold earlier has been rejected while another
\* position was open
SellOfSoldPositionRejected ==
  /\ lastCall.op = "sell"
  /\ lastCall.result = "null"
  /\ lastCall.pos # Null
  /\ Len(activePositions) > 0
  /\ \E i \in 1..Len(completedTrades) : completedTrades[i].sold = lastCall.pos

\* C8 (amended): a successful Sell of an open position adds exactly the
\* computed proceeds to the budget, removes exactly that position (the
\* others unchanged, in order), logs a completed trade with profitOrLoss =
\* proceeds - tradeSizeSol, and saves the resulting array: the file holds
\* the resulting positions once saveActiveTrades has returned true, and is
\* as it was before the call when it has returned false.
SellEffects ==
  (/\ lastCall.op = "sell"
   /\ lastCall.result = "object"
   /\ \E i \in 1..Len(lastCall.pre.activePositions) :
        lastCall.pre.activePositions[i] = lastCall.pos)
  => LET pre == lastCall.pre
         position == pre.heap[lastCall.pos]
         proceeds ==
           ((((position.tokenAmount * lastCall.price)
               * (RateOne - RAYDIUM_FEE_PERCENT)) \div RateOne)
             * (RateOne - Slippage(lastCall.r, SellSlippageMin, SellSlippageMax)))
           \div RateOne
         trade == completedTrades[Len(completedTrades)]
     IN  /\ virtualBudget = pre.virtualBudget
                             + (IF lastCall.price <= 0 THEN 0 ELSE proceeds)
         /\ activePositions =
              SelectSeq(pre.activePositions, LAMBDA id : id # lastCall.pos)
         /\ heap = pre.heap
         /\ completedTrades = Append(pre.completedTrades, trade)
         /\ trade.tokenMintAddress = position.tokenMintAddress
         /\ trade.sellPrice = lastCall.price
         /\ trade.exitReason = lastCall.reason
         /\ trade.solProceeds = virtualBudget - pre.virtualBudget
         /\ trade.profitOrLoss = trade.solProceeds - position.tradeSizeSol
         /\ lastCall.saved = "none"
              => \E t \in Callers : tasks[t].pc \in {"access", "write"}
         /\ lastCall.saved = "true" => StoreIsMemory
         /\ lastCall.saved = "false" => store = pre.store

\* a Sell at a loss has succeeded beside another open position, and its
\* save has returned true
SellSucceededAtLoss ==
  /\ lastCall.op = "sell"
  /\ lastCall.result = "object"
  /\ lastCall.saved = "true"
  /\ Len(activePositions) > 0
  /\ completedTrades[Len(completedTrades)].profitOrLoss < 0

\* C8 as stated: once a successful Sell has returned, the resulting
\* positions are persisted.
SellPersists ==
  (lastCall.op = "sell" /\ lastCall.result = "object" /\ Quiescent)
  => StoreIsMemory

\* C9 (amended): a successful Buy takes exactly TRADE_SIZE_SOL from the
\* budget, appends exactly one new position of the mint with peakPrice =
\* buyPrice = the reference price and tradeSizeSol = TRADE_SIZE_SOL, leaves
\* the other positions unchanged, and saves the array: the file holds all
\* open positions once saveActiveTrades has returned true, and is as it was
\* before the call when it has returned false.
BuyEffects ==
  (lastCall.op = "buy" /\ lastCall.result = "object")
  => LET pre == lastCall.pre
         id == activePositions[Len(activePositions)]
     IN  /\ virtualBudget = pre.virtualBudget - TRADE_SIZE_SOL
         /\ activePositions = Append(pre.activePositions, id)
         /\ id \notin DOMAIN pre.heap
         /\ DOMAIN heap = DOMAIN pre.heap \cup {id}
         /\ \A old \in DOMAIN pre.heap : heap[old] = pre.heap[old]
         /\ heap[id].tokenMintAddress = lastCall.mint
         /\ heap[id].poolId = PoolOf(lastCall.mint)
         /\ heap[id].peakPrice = lastCall.price
         /\ heap[id].buyPrice = lastCall.price
         /\ heap[id].tradeSizeSol = TRADE_SIZE_SOL
         /\ heap[id].tokenAmount > 0
         /\ completedTrades = pre.completedTrades
         /\ lastCall.saved = "none"
              => \E t \in Callers : tasks[t].pc \in {"access", "write"}
         /\ lastCall.saved = "true" => StoreIsMemory
         /\ lastCall.saved = "false" => store = pre.store

\* a Buy has succeeded beside an open position, and its save has returned
\* true
BuySucceededBesideOpenPosition ==
  /\ lastCall.op = "buy"
  /\ lastCall.result = "object"
  /\ lastCall.saved = "true"
  /\ Len(activePositions) = 2

\* C9 as stated: once a successful Buy has returned, the full position set
\* is persisted.
BuyPersists ==
  (lastCall.op = "buy" /\ lastCall.result = "object" /\ Quiescent)
  => StoreIsMemory

\* C10: a Buy with a reference price <= 0 is rejected and leaves the
\* budget, the positions and the file unchanged.
BuyAtNonPositivePriceRejected ==
  (lastCall.op = "buy" /\ lastCall.price <= 0)
  => /\ lastCall.result = "null"
     /\ virtualBudget = lastCall.pre.virtualBudget
     /\ activePositions = lastCall.pre.activePositions
     /\ heap = lastCall.pre.heap
     /\ store = lastCall.pre.store

\* a Buy at a price <= 0 was rejected where CanBuy held for its mint
BuyRejectedForPriceAlone ==
  /\ lastCall.op = "buy"
  /\ lastCall.result = "null"
  /\ lastCall.price <= 0
  /\ lastCall.pre.virtualBudget >= TRADE_SIZE_SOL
  /\ Len(lastCall.pre.activePositions) < MAX_CONCURRENT_POSITIONS
  /\ ~WasOpen(lastCall.mint)

\* C11: in every reachable state the peak price of every open position is
\* at least its buy price, and no step (updatePeakPrice called directly or
\* by a sweep, a buy, a sell, a save) lowers the peak price of a position.
PeakNeverBelowBuyNorLowered ==
  /\ [](\A i \in 1..Len(activePositions) :
          heap[activePositions[i]].peakPrice >= heap[activePositions[i]].buyPrice)
  /\ [][\A id \in DOMAIN heap :
          id \in DOMAIN heap' /\ heap'[id].peakPrice >= heap[id].peakPrice]_vars

\* a sweep has raised the peak of the position that was loaded with peak =
\* buy price, and the position is still open
PeakRaisedAboveBuy ==
  \E i \in 1..Len(activePositions) :
    /\ heap[activePositions[i]].tokenMintAddress = "m1"
    /\ heap[activePositions[i]].buyTimestamp = 0
    /\ heap[activePositions[i]].peakPrice > heap[activePositions[i]].buyPrice

\* the open position of the mint when the awaited call was made, or Null
OpenBefore(mint) ==
  FindByMint(lastCall.pre.activePositions, lastCall.pre.heap, mint)

\* C12 (amended): updatePeakPrice(mint, price) changes state only when a
\* position of the mint is open and price > its peak: then the peak of
\* that position alone becomes price and the array is saved, so that the
\* file holds the open positions once saveActiveTrades has returned true
\* and is as it was before the call when it has returned false.  When
\* price <= peak or no position of the mint is open, the budget, every
\* position and the file are unchanged and nothing is saved.
PeakEffects ==
  lastCall.op = "peak"
  => LET pre == lastCall.pre
         position == OpenBefore(lastCall.mint)
     IN  /\ virtualBudget = pre.virtualBudget
         /\ activePositions = pre.activePositions
         /\ completedTrades = pre.completedTrades
         /\ IF position # Null /\ lastCall.price > pre.heap[position].peakPrice
            THEN /\ heap = [pre.heap EXCEPT ![position].peakPrice = lastCall.price]
                 /\ lastCall.saved = "none"
                      => \E t \in Callers : tasks[t].pc \in {"access", "write"}
                 /\ lastCall.saved = "true" => StoreIsMemory
                 /\ lastCall.saved = "false" => store = pre.store
            ELSE /\ heap = pre.heap
                 /\ store = pre.store
                 /\ lastCall.saved = "none"
                 /\ Quiescent

\* updatePeakPrice has raised the peak of one of two open positions, and
\* its save has returned true
PeakRaisedBesideOpenPosition ==
  /\ lastCall.op = "peak"
  /\ lastCall.saved = "true"
  /\ Len(activePositions) = 2
  /\ heap # lastCall.pre.heap

\* C12 as stated: once an updatePeakPrice that raised a peak has returned,
\* the position set is persisted.
PeakPersists ==
  (/\ lastCall.op = "peak"
   /\ OpenBefore(lastCall.mint) # Null
   /\ lastCall.price > lastCall.pre.heap[OpenBefore(lastCall.mint)].peakPrice
   /\ Quiescent)
  => StoreIsMemory

\* C13: the array getActivePositions returned shares nothing with the
\* ledger: whatever the ledger does later, the positions a sweep holds in
\* its copy have the field values they had when the copy was made.
SnapshotKeepsItsValues ==
  \A t \in Slots :
    tasks[t].kind = "sweep" => Stringify(tasks[t].snap, heap) = tasks[t].seen

\* the awaited call of analyzeTokenAndPool has returned
Analyzed == lastCall.op = "analyze" /\ lastCall.result # NoVerdict

\* the age of the pool that analyzeTokenAndPool measured
MeasuredAge == lastCall.currentTime - lastCall.poolData.timestamp

\* exactly one of the two mints of the event is wrapped SOL, and the other
\* one is there
OneSideIsSol ==
  LET a == lastCall.poolData.tokenA_mint
      b == lastCall.poolData.tokenB_mint
  IN  /\ (a = WRAPPED_SOL_MINT) # (b = WRAPPED_SOL_MINT)
      /\ a # "none" /\ b # "none"

\* C14: analyzeTokenAndPool finds a pool suitable only when getPoolLiquidity
\* resolved to a SOL amount that is at least MIN_LIQUIDITY_SOL; it rejects
\* when the amount is lower, when the lookup gave null, and when it gave
\* raw data only.
AcceptOnlyOnSufficientReserve ==
  (Analyzed /\ lastCall.result.suitable)
  => /\ lastCall.liquidityData # NoVerdict
     /\ ~lastCall.liquidityData.isNull
     /\ lastCall.liquidityData.solAmount # Undefined
     /\ lastCall.liquidityData.solAmount >= MIN_LIQUIDITY_SOL

\* C15: a pool whose age at the call exceeds MAX_POOL_AGE_MINUTES is
\* rejected as too old before anything else is looked at, whatever its
\* mints, and so whatever the lookups would have given; a pool whose age is
\* exactly MAX_POOL_AGE_MINUTES (or less) is not rejected as too old.
OldPoolRejectedCeilingAllowed ==
  lastCall.op = "analyze"
  => /\ MeasuredAge > MAX_POOL_AGE_MINUTES
          => /\ lastCall.result = Reject("pool_too_old")
             /\ lastCall.lookups = <<>>
             /\ \A mi \in MintInfoOutcomes, l \in LiquidityInputs :
                  ~analyzeTokenAndPool(lastCall.poolData, lastCall.currentTime,
                                       mi, l).suitable
     /\ MeasuredAge <= MAX_POOL_AGE_MINUTES
          => lastCall.result # Reject("pool_too_old")

\* a pool older than the maximum, whose other rules would pass, was rejected
OldSolPairRejected ==
  /\ Analyzed
  /\ MeasuredAge > MAX_POOL_AGE_MINUTES
  /\ OneSideIsSol
  /\ ~lastCall.result.suitable

\* C16: a token whose mint has a freeze authority is rejected, and so is a
\* token whose mint info could not be fetched; the pool's liquidity is not
\* looked up and would not change the verdict.
FrozenOrUnknownMintRejected ==
  lastCall.op = "analyze"
  => /\ lastCall.mintInfo = "freeze_held"
          => lastCall.result = Reject("freeze_authority")
     /\ lastCall.mintInfo = "null"
          => lastCall.result = Reject("no_mint_info")
     /\ lastCall.mintInfo \in {"freeze_held", "null"}
          => /\ Len(lastCall.lookups) = 1
             /\ \A l \in LiquidityInputs :
                  ~analyzeTokenAndPool(lastCall.poolData, lastCall.currentTime,
                                       lastCall.mintInfo, l).suitable
     /\ (Analyzed /\ lastCall.result.suitable)
          => lastCall.mintInfo = "freeze_revoked"

\* a token with a freeze authority was rejected
FrozenMintRejected ==
  /\ Analyzed
  /\ lastCall.mintInfo = "freeze_held"
  /\ ~lastCall.result.suitable

\* C17: the pair passes only when exactly one of the two mints is wrapped
\* SOL: with neither, with both, or with a mint missing, the pool is
\* rejected and no lookup is made.
PairingRule ==
  lastCall.op = "analyze"
  => /\ ~OneSideIsSol
          => /\ Analyzed
             /\ ~lastCall.result.suitable
             /\ lastCall.lookups = <<>>
             /\ MeasuredAge <= MAX_POOL_AGE_MINUTES
                  => lastCall.result \in {Reject("not_a_sol_pair"),
                                          Reject("new_token_is_sol")}
     /\ (OneSideIsSol /\ MeasuredAge <= MAX_POOL_AGE_MINUTES)
          => /\ lastCall.result \notin {Reject("not_a_sol_pair"),
                                        Reject("new_token_is_sol")}
             /\ lastCall.lookups # <<>>

\* a new pool of wrapped SOL with wrapped SOL was rejected for its pair
SolWithSolRejected ==
  /\ Analyzed
  /\ lastCall.poolData.tokenA_mint = WRAPPED_SOL_MINT
  /\ lastCall.poolData.tokenB_mint = WRAPPED_SOL_MINT
  /\ lastCall.result = Reject("new_token_is_sol")

\* C18: the rules are applied in the order age, pair, freeze authority,
\* liquidity, and the first one that fails ends the analysis: the mint
\* info is looked up only once age and pair have passed, the liquidity only
\* once the freeze authority has passed too.
RulesInOrderFailFast ==
  lastCall.op = "analyze"
  => LET ageFails == MeasuredAge > MAX_POOL_AGE_MINUTES
         pairFails == ~OneSideIsSol
         freezeFails == lastCall.mintInfo \in {"null", "freeze_held"}
         mintLookup == Lookup("getMintAccountInfo",
                              newTokenMintOf(lastCall.poolData))
         liquidityLookup == Lookup("getPoolLiquidity", lastCall.poolData.ammId)
     IN  /\ ageFails => lastCall.result = Reject("pool_too_old")
         /\ (~ageFails /\ pairFails)
              => lastCall.result \in {Reject("not_a_sol_pair"),
                                      Reject("new_token_is_sol")}
         /\ (ageFails \/ pairFails) => lastCall.lookups = <<>>
         /\ (~ageFails /\ ~pairFails)
              => \/ lastCall.lookups = <<mintLookup>>
                 \/ lastCall.lookups = <<mintLookup, liquidityLookup>>
         /\ freezeFails
              => /\ lastCall.lookups = <<mintLookup>>
                 /\ lastCall.result \in {Reject("no_mint_info"),
                                         Reject("freeze_authority")}
         /\ lastCall.mintInfo = "none" => lastCall.liquidityData = NoVerdict
         /\ Len(lastCall.lookups) = 2 => lastCall.mintInfo = "freeze_revoked"

\* a pool that fails the age rule and the pair rule was rejected for its
\* age, with no lookup
OldNonSolPairRejectedForAge ==
  /\ Analyzed
  /\ MeasuredAge > MAX_POOL_AGE_MINUTES
  /\ ~OneSideIsSol
  /\ lastCall.result = Reject("pool_too_old")
  /\ lastCall.lookups = <<>>

\* C19: a verdict that finds the pool suitable carries the mint of the
\* pool that is not wrapped SOL and the ammId of the event; a verdict that
\* rejects carries a reason and no token mint.
VerdictContents ==
  Analyzed
  => LET a == lastCall.poolData.tokenA_mint
         b == lastCall.poolData.tokenB_mint
         verdict == lastCall.result
     IN  IF verdict.suitable
         THEN /\ verdict.tokenMint \in {a, b} \ {WRAPPED_SOL_MINT, "none"}
              /\ {a, b} \ {verdict.tokenMint} = {WRAPPED_SOL_MINT}
              /\ verdict.poolId = lastCall.poolData.ammId
              /\ verdict.reason # ""
         ELSE /\ verdict.reason # ""
              /\ verdict.tokenMint = "none"
              /\ verdict.poolId = "none"

\* a pool whose second mint is wrapped SOL was found suitable
SuitableWithSolAsTokenB ==
  /\ Analyzed
  /\ lastCall.result.suitable
  /\ lastCall.poolData.tokenB_mint = WRAPPED_SOL_MINT

NotificationOf(d, n) == {f \in d.notifications : f.n = n}

\* a lookup of the notification has failed: the signature lookup threw,
\* the transaction was not fetched, or its data is malformed
LookupFailed(f) ==
  \/ f.signature = "throws"
  \/ f.txDetails \in {"null", "malformed"}

\* the last step of the callback was a failed lookup
LastDropped ==
  /\ lastCall.op = "notification"
  /\ \E f \in NotificationOf(detector, lastCall.n) : LookupFailed(f)

\* C22: a notification whose signature lookup throws, whose transaction
\* cannot be fetched or whose transaction data is malformed is dropped:
\* onNewPoolDetectedCallback is never called for it, and dropping it
\* leaves the subscription id, the registered listeners, the other
\* notifications in progress and the calls made so far as they were.
LookupFailureDropsOnlyThatNotification ==
  /\ \A f \in detector.notifications :
        LookupFailed(f) =>
          \A i \in 1..Len(detector.delivered) : detector.delivered[i].n # f.n
  /\ LastDropped =>
        /\ detector.delivered = lastCall.pre.delivered
        /\ detector.poolSubscriptionId = lastCall.pre.poolSubscriptionId
        /\ detector.listeners = lastCall.pre.listeners
        /\ detector.removing = lastCall.pre.removing
        /\ detector.notifications \ NotificationOf(detector, lastCall.n)
             = lastCall.pre.notifications \ NotificationOf(lastCall.pre, lastCall.n)

\* a notification that arrived after another one had been dropped for
\* malformed transaction data has led to a call of the handler
DeliveredAfterDrop ==
  \E f, g \in detector.notifications :
    /\ g.txDetails = "malformed"
    /\ g.n \in f.since
    /\ f.pc = "delivered"
    /\ f.listener \in detector.listeners
    /\ \E i \in 1..Len(detector.delivered) : detector.delivered[i].n = f.n

\* C23: onNewPoolDetectedCallback is called at most once for a
\* transaction signature.
HandlerInvokedOncePerTransaction ==
  \A i, j \in 1..Len(detector.delivered) :
    (/\ detector.delivered[i].transaction_signature
          = detector.delivered[j].transaction_signature
     /\ detector.delivered[i].handler = detector.delivered[j].handler)
      => i = j

\* a run of checkExitConditions has evaluated its rules
Evaluated == lastCall.op = "check" /\ lastCall.result \in {"sold", "kept"}

\* the position of the last run of checkExitConditions is open
StillOpen ==
  FindByMint(activePositions, heap, lastCall.position.tokenMintAddress) # Null

\* the last run of checkExitConditions has sold its position, once, with
\* this reason and at the price it was given
SoldFor(exitReason) ==
  /\ lastCall.result = "sold"
  /\ ~StillOpen
  /\ Len(completedTrades) = Len(lastCall.pre.completedTrades) + 1
  /\ SubSeq(completedTrades, 1, Len(lastCall.pre.completedTrades))
       = lastCall.pre.completedTrades
  /\ completedTrades[Len(completedTrades)].tokenMintAddress
       = lastCall.position.tokenMintAddress
  /\ completedTrades[Len(completedTrades)].exitReason = exitReason
  /\ completedTrades[Len(completedTrades)].sellPrice = lastCall.price

\* C24: an evaluation whose price is at or above buy price x (1 + profit
\* target) sells the position, once, with reason profit_target, whatever
\* the peak and the age of the position.
ProfitTargetSells ==
  (/\ Evaluated
   /\ (lastCall.price - lastCall.position.buyPrice) * RateOne
        >= PROFIT_TARGET_PERCENT * lastCall.position.buyPrice)
    => SoldFor("profit_target")

\* a position bought at 100 and evaluated at 100 and then at 116 has been
\* sold at 116 for the profit target
SoldAtFirstPriceOnTarget ==
  /\ Evaluated
  /\ lastCall.position.buyPrice = 100
  /\ lastCall.paths[lastCall.position.tokenMintAddress] = <<100, 116>>
  /\ SoldFor("profit_target")

\* the peak the rules of the last run of checkExitConditions have read
PeakAtCheck ==
  IF lastCall.price > lastCall.position.peakPrice
  THEN lastCall.price ELSE lastCall.position.peakPrice

\* the minutes the position had been held when the rules were evaluated
ElapsedAtCheck == lastCall.time - lastCall.position.buyTimestamp

\* C25 as stated: within the time limit, a position stays open while its
\* price rises above buy price x (1 + profit target), each price a new
\* peak, so that the trailing stop is armed for a later fall.
OpenWhileRisingAboveTarget ==
  (/\ Evaluated
   /\ lastCall.price >= lastCall.position.peakPrice
   /\ lastCall.price * RateOne
        > lastCall.position.buyPrice * (RateOne + PROFIT_TARGET_PERCENT)
   /\ ElapsedAtCheck < TRADE_TIME_LIMIT_MINUTES)
    => StillOpen

\* every valid price the position has been evaluated with is its buy price
PriceNeverMoved ==
  /\ lastCall.position.peakPrice = lastCall.position.buyPrice
  /\ \A i \in 1..Len(lastCall.paths[lastCall.position.tokenMintAddress]) :
        lastCall.paths[lastCall.position.tokenMintAddress][i]
          = lastCall.position.buyPrice

\* C26 as stated: a position whose price never moves is open after every
\* run of checkExitConditions before buy time + time limit, and has been
\* sold with reason time_limit by the end of the first run at or after it.
TimeLimitSellsByFirstCycle ==
  (/\ lastCall.op = "check"
   /\ lastCall.result # "peak"
   /\ PriceNeverMoved)
    => IF ElapsedAtCheck >= TRADE_TIME_LIMIT_MINUTES
       THEN SoldFor("time_limit")
       ELSE StillOpen

\* C27: a run of checkExitConditions that gets no price, or a price that is
\* not positive, changes neither the budget, the positions, the completed
\* trades nor the store; monitorTrades goes on with the next position of
\* its list, or returns after the last; the position stays open and so is
\* in the list of the next monitorTrades.
UnavailablePriceSkips ==
  /\ (lastCall.op = "check"
       /\ (lastCall.price = NoPrice \/ lastCall.price <= 0))
       => lastCall.result = "skipped"
  /\ (lastCall.op = "check" /\ lastCall.result = "skipped")
       => /\ virtualBudget = lastCall.pre.virtualBudget
          /\ activePositions = lastCall.pre.activePositions
          /\ heap = lastCall.pre.heap
          /\ completedTrades = lastCall.pre.completedTrades
          /\ store = lastCall.pre.store
          /\ StillOpen
          /\ lastCall.next =
                IF lastCall.frame.idx < Len(lastCall.frame.snap)
                THEN [lastCall.frame EXCEPT !.idx = @ + 1]
                ELSE Idle
  /\ \A t \in Slots :
        (tasks[t].kind = "sweep" /\ tasks[t].idx = 1 /\ tasks[t].pc = "price")
          => tasks[t].snap = activePositions

\* the first position of a sweep was skipped for a price of 0 or no price,
\* and the second has then been evaluated with a valid price
EvaluatedAfterSkip ==
  /\ Evaluated
  /\ lastCall.frame.idx = 2
  /\ lastCall.paths[heap[lastCall.frame.snap[1]].tokenMintAddress] = <<>>

\* the rule that matches first, in the order of lines 65-88
FirstMatch ==
  IF (lastCall.price - lastCall.position.buyPrice) * RateOne
       >= PROFIT_TARGET_PERCENT * lastCall.position.buyPrice
  THEN "profit_target"
  ELSE IF /\ PeakAtCheck * RateOne
              > lastCall.position.buyPrice * (RateOne + PROFIT_TARGET_PERCENT)
          /\ lastCall.price * RateOne
              < PeakAtCheck * (RateOne - TRAILING_STOP_PERCENT)
  THEN "trailing_stop"
  ELSE IF ElapsedAtCheck >= TRADE_TIME_LIMIT_MINUTES THEN "time_limit"
  ELSE "none"

\* C28: a run of checkExitConditions with a valid price sells its position
\* exactly once, with the reason of the first rule that matches in the
\* order profit_target, trailing_stop, time_limit; when no rule matches
\* nothing is sold, the budget is unchanged, and the position stays open
\* with its buy price, token amount, cost and buy timestamp (its peak may
\* have been raised).
FirstMatchingRuleSellsOnce ==
  Evaluated =>
    IF FirstMatch = "none"
    THEN /\ lastCall.result = "kept"
         /\ completedTrades = lastCall.pre.completedTrades
         /\ virtualBudget = lastCall.pre.virtualBudget
         /\ activePositions = lastCall.pre.activePositions
         /\ heap[lastCall.pos] =
              [lastCall.position EXCEPT !.peakPrice = PeakAtCheck]
    ELSE SoldFor(FirstMatch)

\* a position with an armed trailing stop whose price fell below the stop
\* has been sold for the trailing stop, past its time limit
SoldForStopPastTimeLimit ==
  /\ Evaluated
  /\ ElapsedAtCheck >= TRADE_TIME_LIMIT_MINUTES
  /\ SoldFor("trailing_stop")

\* the process has just been started again
Restarted == lastCall.op = "restart"

\* the new process has found the file whole, as a saveActiveTrades wrote it
FoundAsSaved == store.state = "file" /\ store.data.kind = "array"

\* C29: after a restart that finds the file as saveActiveTrades wrote it,
\* the open positions are the saved array: as many, in the same order, every
\* member equal; and after any restart the open positions are what
\* loadActiveTrades returns for the file.
SavedTradesSurviveRestart ==
  Restarted =>
    /\ Stringify(activePositions, heap) = loadActiveTrades
    /\ \A i, j \in 1..Len(activePositions) :
          activePositions[i] = activePositions[j] => i = j
    /\ FoundAsSaved =>
          /\ Len(activePositions) = Len(store.written)
          /\ \A i \in 1..Len(activePositions) :
                \A k \in 1..Len(PositionFields) :
                  heap[activePositions[i]][PositionFields[k]]
                    = store.written[i][PositionFields[k]]
          /\ Stringify(activePositions, heap) = store.written

\* the process was stopped with no write pending after a buy had been
\* saved behind an older position, and the new process holds both
RestartedWithTwoSavedTrades ==
  /\ Restarted
  /\ store = lastCall.pre.store
  /\ \A t \in Slots : lastCall.pre.tasks[t] = Idle
  /\ Len(activePositions) = 2
  /\ heap[activePositions[1]].tokenMintAddress = "m1"
  /\ heap[activePositions[2]].tokenMintAddress = "m3"
  /\ heap[activePositions[2]].buyPrice = 120

\* the file the new process has found is absent, unreadable, empty, not
\* JSON, or JSON that is not an array
FoundUnusable ==
  \/ store.state \in {"absent", "unreadable"}
  \/ store.data.kind \in {"empty", "garbage", "object"}

\* C30: a process started on a trades file that is absent, unreadable,
\* empty, not JSON or not a JSON array gets the empty array from
\* loadActiveTrades and starts with no open position and the configured
\* budget.
UnusableStoreLoadsEmpty ==
  /\ FoundUnusable => loadActiveTrades = <<>>
  /\ (Restarted /\ FoundUnusable)
       => /\ activePositions = <<>>
          /\ virtualBudget = VIRTUAL_BUDGET_SOL
          /\ \A t \in Slots : tasks[t] = Idle

\* a process that held an open position has been started again on a file
\* holding the JSON text of an object
RestartedOnObjectFile ==
  /\ Restarted
  /\ store.state = "file"
  /\ store.data.kind = "object"
  /\ Len(lastCall.pre.activePositions) > 0
  /\ activePositions = <<>>

\* C31: every successful Sell appends exactly one completed trade and every
\* rejected Sell appends none; the position fields of the appended trade
\* (mint, pool, buy price, token amount, peak, cost) are those of the
\* position that the ledger held for that mint when Sell was called; and the
\* trades logged before the call are still there, unchanged.
SellLogsTheLedgerPosition ==
  lastCall.op = "sell"
  => LET pre == lastCall.pre
         held == FindByMint(pre.activePositions, pre.heap, lastCall.mint)
         trade == completedTrades[Len(completedTrades)]
     IN  IF lastCall.result = "object"
         THEN /\ completedTrades = Append(pre.completedTrades, trade)
              /\ held # Null
              /\ trade.tokenMintAddress = pre.heap[held].tokenMintAddress
              /\ trade.poolId = pre.heap[held].poolId
              /\ trade.buyPrice = pre.heap[held].buyPrice
              /\ trade.tokenAmount = pre.heap[held].tokenAmount
              /\ trade.peakPrice = pre.heap[held].peakPrice
              /\ trade.tradeSizeSol = pre.heap[held].tradeSizeSol
         ELSE completedTrades = pre.completedTrades

\* the same, for the calls that pass an object of the ledger's array
SellOfHeldObjectLogsIt ==
  (/\ lastCall.op = "sell"
   /\ lastCall.pos # Null
   /\ lastCall.pos = FindByMint(lastCall.pre.activePositions,
                                lastCall.pre.heap, lastCall.mint))
  => SellLogsTheLedgerPosition

\* the reference formulas, evaluated as they are written:
\* solIn x (1 - fee) x (1 - slippage) / price, and
\* tokenAmount x price x (1 - fee) x (1 - slippage)
TokensOutReference(solIn, price, fee, slippage) ==
  Over(Times(Times(Frac(solIn, 1), Frac(RateOne - fee, RateOne)),
             Frac(RateOne - slippage, RateOne)),
       Frac(price, 1))
SolOutReference(tokenAmount, price, fee, slippage) ==
  Times(Times(Frac(tokenAmount * price, 1), Frac(RateOne - fee, RateOne)),
        Frac(RateOne - slippage, RateOne))

\* what calculateTokensForSol returns for the arguments of the last call
\* with another fee, and with another slippage
TokensAtFee(fee) ==
  tokensAfterSlippage(Frac(lastCall.amount, 1), Frac(lastCall.price, 1),
                      Frac(fee, RateOne), Frac(lastCall.slippage, RateOne))
TokensAtSlippage(slippage) ==
  tokensAfterSlippage(Frac(lastCall.amount, 1), Frac(lastCall.price, 1),
                      Frac(lastCall.fee, RateOne), Frac(slippage, RateOne))

\* the results agree with the reference formulas, and are 0 for a price <= 0
PricingEqualsReference ==
  /\ lastCall.op = "calculateTokensForSol"
     => lastCall.result =
          IF lastCall.price > 0
          THEN TokensOutReference(lastCall.amount, lastCall.price,
                                  lastCall.fee, lastCall.slippage)
          ELSE Frac(0, 1)
  /\ lastCall.op = "calculateSolForTokens"
     => lastCall.result =
          IF lastCall.price > 0
          THEN SolOutReference(lastCall.amount, lastCall.price,
                               lastCall.fee, lastCall.slippage)
          ELSE Frac(0, 1)

\* the ledger's fixed-point amount is the result rounded down, short of it
\* by less than 3 units
UnitsWithinRounding ==
  lastCall.op \in {"calculateTokensForSol", "calculateSolForTokens"}
  => /\ ~Less(lastCall.result, Frac(lastCall.units, 1))
     /\ Less(lastCall.result, Frac(lastCall.units + 3, 1))

\* C32 (amended): for price > 0, tokensOut = solIn x (1 - fee) x
\* (1 - slippage) / price and solOut = tokenAmount x price x (1 - fee) x
\* (1 - slippage); for solIn > 0 and price > 0, tokensOut is strictly less
\* with any greater fee and with any greater slippage; for price <= 0 both
\* functions return 0.
PricingMatchesReference ==
  /\ PricingEqualsReference
  /\ (/\ lastCall.op = "calculateTokensForSol"
      /\ lastCall.price > 0
      /\ lastCall.amount > 0)
     => /\ \A fee \in Rates :
             fee > lastCall.fee => Less(TokensAtFee(fee), lastCall.result)
        /\ \A slippage \in Rates :
             slippage > lastCall.slippage
             => Less(TokensAtSlippage(slippage), lastCall.result)

\* calculateTokensForSol has priced the trade size at a positive price with
\* the fee of the configuration and the least buy slippage
TradeSizePriced ==
  /\ lastCall.op = "calculateTokensForSol"
  /\ lastCall.amount = TRADE_SIZE_SOL
  /\ lastCall.price = 120
  /\ lastCall.fee = RAYDIUM_FEE_PERCENT
  /\ lastCall.slippage = BuySlippageMin
  /\ Less(Frac(0, 1), lastCall.result)
  /\ Less(TokensAtFee(BuySlippageMax), lastCall.result)

\* C32 as stated: for every price > 0, whatever the amount, tokensOut is
\* strictly less with any greater fee and with any greater slippage.
TokensStrictlyDecreaseForAnyAmount ==
  (lastCall.op = "calculateTokensForSol" /\ lastCall.price > 0)
  => /\ \A fee \in Rates :
          fee > lastCall.fee => Less(TokensAtFee(fee), lastCall.result)
     /\ \A slippage \in Rates :
          slippage > lastCall.slippage
          => Less(TokensAtSlippage(slippage), lastCall.result)

\* the mints of the positions a restart would load from a file
MintsIn(file) ==
  {loadActiveTradesFrom(file)[i].tokenMintAddress :
     i \in 1..Len(loadActiveTradesFrom(file))}

\* C33: when the write of the trades file fails during Buy, Sell or
\* UpdatePeak, the call is not undone: budget and positions keep the result
\* of the mutation and the file keeps its previous content; and every later
\* Buy and Sell is decided by the budget and the positions in memory (canBuy,
\* the search of simulateSell), whatever the file holds.
WriteFailureIsNotFatal ==
  LET pre == lastCall.pre
  IN  /\ (lastCall.op = "buy" /\ lastCall.saved = "false")
         => /\ store = pre.store
            /\ virtualBudget = pre.virtualBudget - TRADE_SIZE_SOL
            /\ Len(activePositions) = Len(pre.activePositions) + 1
            /\ HasOpen(lastCall.mint)
      /\ (lastCall.op = "sell" /\ lastCall.saved = "false")
         => /\ store = pre.store
            /\ virtualBudget = pre.virtualBudget
                 + completedTrades[Len(completedTrades)].solProceeds
            /\ Len(activePositions) = Len(pre.activePositions) - 1
            /\ ~HasOpen(lastCall.mint)
      /\ (lastCall.op = "peak" /\ lastCall.saved = "false")
         => /\ store = pre.store
            /\ virtualBudget = pre.virtualBudget
            /\ activePositions = pre.activePositions
            /\ heap[OpenBefore(lastCall.mint)].peakPrice = lastCall.price
      /\ lastCall.op = "buy"
         => (lastCall.result = "object"
             <=> /\ pre.virtualBudget >= TRADE_SIZE_SOL
                 /\ Len(pre.activePositions) < MAX_CONCURRENT_POSITIONS
                 /\ ~WasOpen(lastCall.mint)
                 /\ lastCall.price > 0)
      /\ lastCall.op = "sell"
         => (lastCall.result = "object"
             <=> (lastCall.pos # Null /\ WasOpen(lastCall.mint)))

\* a position whose Buy could not be written has been sold: the Sell found
\* it in memory while the file did not hold it, and the write of the Sell
\* has failed too
SoldWhatTheFileNeverHeld ==
  /\ lastCall.op = "sell"
  /\ lastCall.result = "object"
  /\ lastCall.saved = "false"
  /\ lastCall.mint \notin MintsIn(lastCall.pre.store)
  /\ MintsIn(store) # {}

\* C34: whenever checkExitConditions evaluates its rules, the peak that the
\* trailing stop is compared with is the peak stored in the ledger after
\* this cycle's updatePeakPrice, the greater of the peak before and the
\* current price, also when the copy of the array taken at the start of the
\* sweep held a lower peak; and the position is sold for trailing_stop
\* exactly when the rules before it do not sell and that peak is above the
\* arming threshold with the price below the stop.
StopComparesWithLedgerPeak ==
  Evaluated
  => /\ lastCall.peak = PeakAtCheck
     /\ StillOpen
        => heap[FindByMint(activePositions, heap,
                           lastCall.position.tokenMintAddress)].peakPrice
             = lastCall.peak
     /\ SoldFor("trailing_stop")
        <=> /\ (lastCall.price - lastCall.position.buyPrice) * RateOne
                 < PROFIT_TARGET_PERCENT * lastCall.position.buyPrice
            /\ lastCall.peak * RateOne
                 > lastCall.position.buyPrice * (RateOne + PROFIT_TARGET_PERCENT)
            /\ lastCall.price * RateOne
                 < lastCall.peak * (RateOne - TRAILING_STOP_PERCENT)

\* the rules have been evaluated with a peak that this cycle's
\* updatePeakPrice had raised above the one in the sweep's copy, and the
\* position has been kept
EvaluatedWithRaisedPeak ==
  /\ Evaluated
  /\ lastCall.result = "kept"
  /\ lastCall.peak > lastCall.frame.seen[lastCall.frame.idx].peakPrice

\* the sum of profitOrLoss over the completed trades logged so far
RECURSIVE ProfitOrLossOf(_)
ProfitOrLossOf(trades) ==
  IF trades = <<>> THEN 0
  ELSE trades[1].profitOrLoss + ProfitOrLossOf(Tail(trades))

\* C35: in a process that started without a trades file, in every state
\* budget + open positions x trade size = initial budget + the sum of
\* profitOrLoss over the completed trades logged so far.
BudgetIsConserved ==
  virtualBudget + Len(activePositions) * TRADE_SIZE_SOL
    = VIRTUAL_BUDGET_SOL + ProfitOrLossOf(completedTrades)

\* a position has been bought and sold at a loss or a gain and another has
\* been bought since
TradedAndHolding ==
  /\ Len(completedTrades) > 0
  /\ ProfitOrLossOf(completedTrades) # 0
  /\ Len(activePositions) > 0

\* C36: after a restart the open positions are those loaded from the file
\* and the budget is VIRTUAL_BUDGET_SOL, however many positions were loaded;
\* and a Sell of the new process adds its whole proceeds to that budget.
RestartResetsBudget ==
  /\ Restarted
     => /\ Stringify(activePositions, heap) = loadActiveTrades
        /\ virtualBudget = VIRTUAL_BUDGET_SOL
  /\ (/\ restarts > 0
      /\ lastCall.op = "sell"
      /\ lastCall.result = "object")
     => virtualBudget = lastCall.pre.virtualBudget
                          + completedTrades[Len(completedTrades)].solProceeds

\* a new process has loaded two positions, and has sold one of them: the
\* budget is above VIRTUAL_BUDGET_SOL while a loaded position is still open
SoldRestoredOnTopOfFullBudget ==
  /\ restarts > 0
  /\ lastCall.op = "sell"
  /\ lastCall.result = "object"
  /\ lastCall.pre.virtualBudget = VIRTUAL_BUDGET_SOL
  /\ Len(lastCall.pre.activePositions) = 2
  /\ virtualBudget > VIRTUAL_BUDGET_SOL

\* C37: whenever no save of the trades file is in progress, on a file
\* system whose writes all succeed, the positions in the file are the open
\* positions in memory, mint by mint and field by field, also after a Buy of
\* the detector callback and a Sell of the exit sweep have overlapped and
\* their writes have completed in either order.
IdleStoreIsMemory ==
  Quiescent
  => /\ MintsIn(store) = {OpenMints[i] : i \in 1..Len(activePositions)}
     /\ Len(loadActiveTrades) = Len(activePositions)
     /\ StoreIsMemory

\* a Buy and a Sell have overlapped, no peak has been raised, every write
\* has succeeded and none is pending: the file holds the position sold
\* beside the position bought
SoldPositionBackInFile ==
  /\ Quiescent
  /\ Len(completedTrades) = 1
  /\ completedTrades[1].peakPrice = completedTrades[1].buyPrice
  /\ Len(activePositions) = 1
  /\ Len(loadActiveTrades) = 2
  /\ completedTrades[1].tokenMintAddress \in MintsIn(store)
  /\ \A i \in 1..2 : loadActiveTrades[i].peakPrice = loadActiveTrades[i].buyPrice

\* C38: once unsubscribeFromNewPools has resolved, and until the next
\* subscription, no run of the listener callback calls the handler, also
\* for a notification whose signature or transaction lookup was pending
\* when unsubscribeFromNewPools was called.
NoHandlerCallAfterUnsubscribe ==
  (/\ lastCall.op = "notification"
   /\ lastCall.pre.poolSubscriptionId = NoSubscription
   /\ lastCall.pre.removing = NoSubscription)
  => detector.delivered = lastCall.pre.delivered

\* no monitorTrades is running
NoSweep == \A t \in Slots : tasks[t].kind # "sweep"

MissingPositionIsLeftAlone ==
  (lastCall.op = "reread" /\ ~lastCall.found)
  => /\ virtualBudget = lastCall.pre.virtualBudget
     /\ activePositions = lastCall.pre.activePositions
     /\ heap = lastCall.pre.heap
     /\ completedTrades = lastCall.pre.completedTrades
     /\ tasks[lastCall.slot].op # "sell"

\* a sweep has raised the peak of its position and awaited the save; the
\* other sweep has sold the position meanwhile; the first has read the
\* array again and not found it
GoneAfterPeakUpdate ==
  /\ lastCall.op = "reread"
  /\ lastCall.afterPeak
  /\ ~lastCall.found
  /\ \E i \in 1..Len(completedTrades) :
       /\ completedTrades[i].tokenMintAddress
            = lastCall.position.tokenMintAddress
       /\ completedTrades[i].peakPrice = lastCall.position.peakPrice
       /\ completedTrades[i].peakPrice > completedTrades[i].buyPrice

====
